---- MODULE Spec2Model ----
(***************************************************************************)
(* State-machine model of RSA_single.py: the interactive RSA/AES helper.   *)
(* Text (str) is a sequence of code points, data (bytes) a sequence of     *)
(* 0..255.  The external openssl process is modelled by the operators of   *)
(* the "openssl" section; everything else is translated from the Python.   *)
(***************************************************************************)
EXTENDS Integers, Sequences, FiniteSets, TLC

\* ------------------------------------------------------------------ text
\* ASCII codes used by the program's literals.
NL == 10
SP == 32
DOT == 46
EQ == 61
DASH == 45

Min(S) == CHOOSE x \in S : \A y \in S : x <= y
Max(S) == 0 - Min({0 - x : x \in S})

\* a value computed once and used under a name, as a Python assignment does
Let(v, f(_)) == f(v)

\* n copies of c
Rep(n, c) == [i \in 1..n |-> c]

\* str.strip() / str.isspace(): Python's Unicode whitespace below U+0100
StrSpace == {9, 10, 11, 12, 13, 28, 29, 30, 31, 32, 133, 160}
\* bytes.strip(): ASCII whitespace
BytesSpace == {9, 10, 11, 12, 13, 32}

StripWith(s, ws) ==
  IF s = <<>> \/ (s[1] \notin ws /\ s[Len(s)] \notin ws) THEN s
  ELSE Let({i \in 1..Len(s) : s[i] \notin ws}, LAMBDA keep :
         IF keep = {} THEN <<>> ELSE SubSeq(s, Min(keep), Max(keep)))

RStripWith(s, ws) ==
  IF s = <<>> \/ s[Len(s)] \notin ws THEN s
  ELSE Let({i \in 1..Len(s) : s[i] \notin ws}, LAMBDA keep :
         IF keep = {} THEN <<>> ELSE SubSeq(s, 1, Max(keep)))

StrStrip(s) == StripWith(s, StrSpace)
BytesRstrip(s) == RStripWith(s, BytesSpace)

\* the Python slice s[a:b] for 0 <= a <= b: out-of-range bounds are clamped
Slice(s, a, b) ==
  IF a >= Len(s) \/ a >= b THEN <<>>
  ELSE SubSeq(s, a + 1, IF b > Len(s) THEN Len(s) ELSE b)

StartsWith(s, p) == Len(s) >= Len(p) /\ SubSeq(s, 1, Len(p)) = p
EndsWith(s, p) == Len(s) >= Len(p) /\ SubSeq(s, Len(s) - Len(p) + 1, Len(s)) = p

\* index of the first c in s, 0 when there is none
IndexOf(s, c) ==
  Let({i \in 1..Len(s) : s[i] = c}, LAMBDA at : IF at = {} THEN 0 ELSE Min(at))

\* s.split(sep, maxsplit) for a one-character separator: a sequence of parts
RECURSIVE Split(_, _, _)
Split(s, sep, maxsplit) ==
  Let(IndexOf(s, sep), LAMBDA i :
    IF maxsplit = 0 \/ i = 0 THEN <<s>>
    ELSE <<SubSeq(s, 1, i - 1)>> \o Split(SubSeq(s, i + 1, Len(s)), sep, maxsplit - 1))

\* the first line of a text: everything before the first newline
FirstLine(s) == Split(s, NL, 1)[1]

\* s.replace(old, new): every non-overlapping occurrence, left to right
RECURSIVE Replace(_, _, _)
Replace(s, old, new) ==
  IF Len(s) < Len(old) THEN s
  ELSE IF StartsWith(s, old)
       THEN new \o Replace(SubSeq(s, Len(old) + 1, Len(s)), old, new)
       ELSE <<s[1]>> \o Replace(SubSeq(s, 2, Len(s)), old, new)

\* str.lower() on ASCII letters
Lower(s) == [i \in 1..Len(s) |-> IF s[i] \in 65..90 THEN s[i] + 32 ELSE s[i]]

\* str.encode(): UTF-8 of code points below U+0800, one byte below U+0080
\* and two from there on
Utf8Encode(s) ==
  IF \A i \in 1..Len(s) : s[i] < 128 THEN s
  ELSE LET start(i) == i + Cardinality({j \in 1..(i - 1) : s[j] >= 128})
           src(k) == Max({i \in 1..Len(s) : start(i) <= k})
       IN [k \in 1..(Len(s) + Cardinality({j \in 1..Len(s) : s[j] >= 128})) |->
             Let(src(k), LAMBDA i :
               IF s[i] < 128 THEN s[i]
               ELSE IF k = start(i) THEN 192 + (s[i] \div 64)
               ELSE 128 + (s[i] % 64))]

\* bytes.decode(): [ok, val]; ok is FALSE where Python raises
\* UnicodeDecodeError.  Sequences of three and four bytes are not modelled:
\* their lead bytes count as undecodable.
Utf8Decode(b) ==
  IF \A i \in 1..Len(b) : b[i] < 128 THEN [ok |-> TRUE, val |-> b]
  ELSE LET lead(i) == b[i] \in 194..223
           cont(i) == b[i] \in 128..191
           wellformed == \A i \in 1..Len(b) :
                            \/ b[i] < 128
                            \/ lead(i) /\ i < Len(b) /\ cont(i + 1)
                            \/ cont(i) /\ i > 1 /\ lead(i - 1)
       IN IF ~wellformed THEN [ok |-> FALSE, val |-> <<>>]
          ELSE Let({i \in 1..Len(b) : ~cont(i)}, LAMBDA heads :
                 [ok |-> TRUE,
                  val |-> [k \in 1..Cardinality(heads) |->
                             Let(CHOOSE i \in heads : Cardinality({j \in heads : j <= i}) = k,
                                 LAMBDA i : IF b[i] < 128 THEN b[i]
                                            ELSE (b[i] - 192) * 64 + (b[i + 1] - 128))]])

\* bytes.hex() is injective and only feeds the -K/-iv arguments: the digits
\* of each byte, high nibble first
Hex(b) == [i \in 1..(2 * Len(b)) |-> IF i % 2 = 1 THEN b[(i + 1) \div 2] \div 16
                                                     ELSE b[i \div 2] % 16]

\* ---------------------------------------------------------------- base64
B64Char(v) ==
  IF v < 26 THEN 65 + v
  ELSE IF v < 52 THEN 97 + (v - 26)
  ELSE IF v < 62 THEN 48 + (v - 52)
  ELSE IF v = 62 THEN 43 ELSE 47

\* the 6-bit value of an alphabet character, 64 for every other character
B64Val(c) ==
  IF c \in 65..90 THEN c - 65
  ELSE IF c \in 97..122 THEN c - 97 + 26
  ELSE IF c \in 48..57 THEN c - 48 + 52
  ELSE IF c = 43 THEN 62
  ELSE IF c = 47 THEN 63 ELSE 64

\* base64.b64encode: three bytes make four characters, the last group is
\* padded with "="
B64Encode(b) ==
  LET n == Len(b)
      at(i) == IF i <= n THEN b[i] ELSE 0
  IN [j \in 1..(4 * ((n + 2) \div 3)) |->
        LET g == 3 * ((j - 1) \div 4)
            r == (j - 1) % 4
        IN IF r = 0 THEN B64Char(at(g + 1) \div 4)
           ELSE IF r = 1 THEN B64Char((at(g + 1) % 4) * 16 + (at(g + 2) \div 16))
           ELSE IF r = 2
                THEN IF g + 2 > n THEN EQ
                     ELSE B64Char((at(g + 2) % 16) * 4 + (at(g + 3) \div 64))
           ELSE IF g + 3 > n THEN EQ ELSE B64Char(at(g + 3) % 64)]

\* binascii.a2b_base64 in its default, non-strict mode.  Characters outside
\* the alphabet are skipped.  A "=" ends the input when the quad it stands in
\* has two or three characters and this pad completes it (quad_pos >= 2 and
\* quad_pos + pads >= 4); what precedes it is decoded.  Without such a pad
\* the number of alphabet characters must be a multiple of four, or
\* binascii.Error is raised.
IsB64(c) == B64Val(c) # 64

B64Decode(s) ==
  Let({i \in 1..Len(s) : IsB64(s[i])}, LAMBDA alpha :
    LET quad(i) == Cardinality({j \in alpha : j < i}) % 4
        lastAlpha(i) == Max({0} \cup {j \in alpha : j < i})
        pads(i) == Cardinality({j \in (lastAlpha(i) + 1)..i : s[j] = EQ})
    IN Let({i \in 1..Len(s) : s[i] = EQ /\ quad(i) >= 2 /\ quad(i) + pads(i) >= 4},
           LAMBDA stops :
       Let(SelectSeq(SubSeq(s, 1, IF stops = {} THEN Len(s) ELSE Min(stops) - 1), IsB64),
           LAMBDA v :
         LET n == Len(v)
             nbytes == 3 * (n \div 4) + (IF n % 4 = 2 THEN 1 ELSE IF n % 4 = 3 THEN 2 ELSE 0)
             byte(k) == LET g == 4 * ((k - 1) \div 3)
                            r == (k - 1) % 3
                        IN IF r = 0 THEN B64Val(v[g + 1]) * 4 + (B64Val(v[g + 2]) \div 16)
                           ELSE IF r = 1
                           THEN (B64Val(v[g + 2]) % 16) * 16 + (B64Val(v[g + 3]) \div 4)
                           ELSE (B64Val(v[g + 3]) % 4) * 64 + B64Val(v[g + 4])
         IN IF stops = {} /\ n % 4 # 0 THEN [ok |-> FALSE, val |-> <<>>]
            ELSE [ok |-> TRUE, val |-> [k \in 1..nbytes |-> byte(k)]])))

\* ------------------------------------------------------------ constants
\* the literals of RSA_single.py, as code points
TagAes == <<65, 69, 83, 50, 53, 54, DASH, 69, 78, 67>>                 \* "AES256-ENC"
TagRsa == <<82, 83, 65, DASH, 69, 78, 67>>                             \* "RSA-ENC"
TagHybrid == <<72, 89, 66, 82, 73, 68, DASH, 82, 83, 65, DASH, 65, 69, 83>>  \* "HYBRID-RSA-AES"
Tags == {TagAes, TagRsa, TagHybrid}
PemBeginPublic ==                                      \* "-----BEGIN PUBLIC KEY-----"
  Rep(5, DASH) \o <<66, 69, 71, 73, 78, SP, 80, 85, 66, 76, 73, 67, SP, 75, 69, 89>> \o Rep(5, DASH)
SufEnc == <<DOT, 101, 110, 99>>                                        \* ".enc"
SufDec == <<DOT, 100, 101, 99>>                                        \* ".dec"
SufPem == <<DOT, 112, 101, 109>>                                       \* ".pem"
SufBin == <<DOT, 98, 105, 110>>                                        \* ".bin"
SufPubPem == <<DOT, 112, 117, 98>> \o SufPem                           \* ".pub.pem"
SufPrivPem == <<DOT, 112, 114, 105, 118>> \o SufPem                    \* ".priv.pem"
SufHybrid == <<DOT, 104, 121, 98, 114, 105, 100>>                      \* ".hybrid"
OutputDec == <<111, 117, 116, 112, 117, 116>> \o SufDec                \* "output.dec"
MyPublicPem == <<109, 121, 95, 112, 117, 98, 108, 105, 99>> \o SufPem  \* "my_public.pem"
MyPrivatePem == <<109, 121, 95, 112, 114, 105, 118, 97, 116, 101>> \o SufPem  \* "my_private.pem"

AesKeyLen == 32
AesIvLen == 16
KeyblobLen == 48
OaepHashLen == 32
DefaultBits == 2048

\* a sequence without its last element: s[:-1]
AllButLast(q) == SubSeq(q, 1, Len(q) - 1)

\* Python's None, kept apart from every text and byte string
None == <<-1>>

VARIABLES
  menu,        \* where main() waits for input: "main", "postgen", "encdec", "exited"
  my_priv,     \* main's my_priv: None or the private key PEM
  my_pub,      \* main's my_pub: None or the public key PEM
  their_pub,   \* main's their_pub: None or the imported bytes
  clipboard,   \* the system clipboard (pyperclip): a text
  fs,          \* the file system: path -> content
  openssl,     \* the installed openssl: "v1" (1.1.x), "v3" (3.x) or "absent"
  CLIP,        \* module global CLIP: pyperclip could be imported
  backend,     \* pyperclip finds a copy/paste mechanism: copy and paste do not raise
  ngen,        \* how many key pairs openssl has generated for this session
  drawn,       \* how many values secrets.token_bytes has returned to this process
  generator,   \* quick_seed's MouseSeedGenerator, the clock and where quick_seed stands
  last         \* what the last command did: observations for the properties

vars ==
  <<menu, my_priv, my_pub, their_pub, clipboard, fs, openssl, CLIP, backend, ngen, drawn,
    generator, last>>

\* what no command of the session changes
host == <<openssl, CLIP, backend, generator>>

\* --------------------------------------------------------------- openssl
\* The external process.  A key is [bits, id]; its PEM files carry a short
\* body in place of the DER structure.  RSA-OAEP and AES-CBC are modelled by
\* invertible byte maps that keep what the program can observe: the length
\* limit of OAEP, the key a ciphertext was made for, PKCS#7 padding and the
\* "Salted__" header of password mode.
PemBeginPrivate ==
  Rep(5, DASH) \o <<66, 69, 71, 73, 78, SP, 80, 82, 73, 86, 65, 84, 69, SP, 75, 69, 89>> \o Rep(5, DASH)
PemEndPrivate ==
  Rep(5, DASH) \o <<69, 78, 68, SP, 80, 82, 73, 86, 65, 84, 69, SP, 75, 69, 89>> \o Rep(5, DASH)
PemEndPublic ==
  Rep(5, DASH) \o <<69, 78, 68, SP, 80, 85, 66, 76, 73, 67, SP, 75, 69, 89>> \o Rep(5, DASH)

PrivPem(k) == PemBeginPrivate \o <<NL>> \o B64Encode(<<0, k.bits \div 1024, k.id>>)
              \o <<NL>> \o PemEndPrivate \o <<NL>>
PubPem(k) == PemBeginPublic \o <<NL>> \o B64Encode(<<1, k.bits \div 1024, k.id>>)
             \o <<NL>> \o PemEndPublic \o <<NL>>

\* what openssl makes of a PEM file: [ok, key]
ParsePem(pem, begin, end, kind) ==
  Let(Split(BytesRstrip(pem), NL, 3), LAMBDA parts :
    IF Len(parts) # 3 \/ parts[1] # begin \/ parts[3] # end THEN [ok |-> FALSE, key |-> None]
    ELSE Let(B64Decode(parts[2]), LAMBDA body :
           IF body.ok /\ Len(body.val) = 3 /\ body.val[1] = kind /\ body.val[2] > 0
           THEN [ok |-> TRUE, key |-> [bits |-> 1024 * body.val[2], id |-> body.val[3]]]
           ELSE [ok |-> FALSE, key |-> None]))

ParsePriv(pem) == IF pem = None THEN [ok |-> FALSE, key |-> None]
                  ELSE ParsePem(pem, PemBeginPrivate, PemEndPrivate, 0)
ParsePub(pem) == IF pem = None THEN [ok |-> FALSE, key |-> None]
                 ELSE ParsePem(pem, PemBeginPublic, PemEndPublic, 1)

\* what a process gives back: its return code is 0 (ok) and val is its
\* standard output, or it is not and diag is what it printed on standard error
Diag(d) == [ok |-> FALSE, val |-> <<>>, diag |-> d]
Fail == Diag("unable to load key")
Good(v) == [ok |-> TRUE, val |-> v, diag |-> ""]

\* openssl genpkey -algorithm RSA -pkeyopt rsa_keygen_bits:<bits>
OsslGenpkey(bits, id) == Good(PrivPem([bits |-> bits, id |-> id]))

\* openssl pkey -in <priv> -pubout
OsslPubout(priv_pem) ==
  Let(ParsePriv(priv_pem), LAMBDA k : IF k.ok THEN Good(PubPem(k.key)) ELSE Fail)

\* openssl pkey -pubin -in <pub> -text: the label and number of its
\* "... Public-Key: (N bit)" line.  1.1.x prints "RSA Public-Key:", 3.x
\* prints "Public-Key:"; an unreadable key prints neither.
OsslPkeyText(pub_pem) ==
  Let(ParsePub(pub_pem), LAMBDA k :
    IF ~k.ok THEN [label |-> "none", bits |-> 0]
    ELSE [label |-> IF openssl = "v1" THEN "RSA Public-Key" ELSE "Public-Key",
          bits |-> k.key.bits])

\* the largest message RSA-OAEP-SHA256 takes under a key of this size
OaepLimit(bits) == bits \div 8 - 2 * 32 - 2

\* openssl pkeyutl -encrypt -pubin ... oaep/sha256, with OAEP's random seed
OsslRsaEncrypt(pub_pem, m, seed) ==
  Let(ParsePub(pub_pem), LAMBDA k :
    IF ~k.ok THEN Fail
    ELSE IF Len(m) > OaepLimit(k.key.bits) THEN Diag("data too large for key size")
    ELSE Good(<<k.key.bits \div 1024, k.key.id, seed>>
              \o [i \in 1..Len(m) |-> (m[i] + k.key.id + seed) % 256]))

\* openssl pkeyutl -decrypt ... oaep/sha256
OsslRsaDecrypt(priv_pem, c) ==
  Let(ParsePriv(priv_pem), LAMBDA k :
    IF ~k.ok THEN Fail
    ELSE IF Len(c) < 3 THEN Diag("oaep decoding error")
    ELSE IF c[1] > k.key.bits \div 1024 THEN Diag("data greater than mod len")
    ELSE IF c[1] # k.key.bits \div 1024 \/ c[2] # k.key.id THEN Diag("oaep decoding error")
    ELSE Good([i \in 1..(Len(c) - 3) |-> (c[i + 3] + 512 - k.key.id - c[3]) % 256]))

Pkcs7Pad(d) == d \o Rep(16 - (Len(d) % 16), 16 - (Len(d) % 16))

AesMask(key, iv, i) ==
  ((IF key = <<>> THEN 0 ELSE key[((i - 1) % Len(key)) + 1])
   + (IF iv = <<>> THEN 0 ELSE iv[((i - 1) % Len(iv)) + 1])) % 256

\* AES-256-CBC with PKCS#7 padding under a raw key and IV; a key or IV longer
\* than the cipher's is refused
OsslAesCbcEncrypt(key, iv, data) ==
  IF Len(key) > 32 \/ Len(iv) > 16 THEN Diag("hex string is too long")
  ELSE Let(Pkcs7Pad(data), LAMBDA p :
         Good([i \in 1..Len(p) |-> (p[i] + AesMask(key, iv, i)) % 256]))

OsslAesCbcDecrypt(key, iv, c) ==
  IF Len(key) > 32 \/ Len(iv) > 16 THEN Diag("hex string is too long")
  ELSE IF Len(c) = 0 \/ Len(c) % 16 # 0 THEN Diag("wrong final block length")
  ELSE Let([i \in 1..Len(c) |-> (c[i] + 256 - AesMask(key, iv, i)) % 256], LAMBDA p :
         IF p[Len(p)] \in 1..16 /\ \A i \in (Len(p) - p[Len(p)] + 1)..Len(p) : p[i] = p[Len(p)]
         THEN Good(SubSeq(p, 1, Len(p) - p[Len(p)])) ELSE Diag("bad decrypt"))

\* the bytes a -K / -iv hex argument stands for
Unhex(h) == [i \in 1..(Len(h) \div 2) |-> 16 * h[2 * i - 1] + h[2 * i]]

\* openssl enc -aes-256-cbc -K <hex key> -iv <hex iv>
OsslEncRaw(hexK, hexIV, data) == OsslAesCbcEncrypt(Unhex(hexK), Unhex(hexIV), data)

\* openssl enc -d -aes-256-cbc -K <hex key> -iv <hex iv>
OsslDecRaw(hexK, hexIV, c) == OsslAesCbcDecrypt(Unhex(hexK), Unhex(hexIV), c)

Salted == <<83, 97, 108, 116, 101, 100, 95, 95>>                       \* "Salted__"

RECURSIVE SumSeq(_)
SumSeq(s) == IF s = <<>> THEN 0 ELSE s[1] + SumSeq(Tail(s))

\* the key and IV openssl derives from a password and a salt
Kdf(passphrase, salt) ==
  Let((7 * SumSeq(Utf8Encode(passphrase)) + 3 * Len(passphrase) + SumSeq(salt)) % 256,
      LAMBDA h : [key |-> [i \in 1..32 |-> (h + i) % 256],
                  iv |-> [i \in 1..16 |-> (2 * h + i) % 256]])

\* openssl enc -aes-256-cbc -salt -pass pass:<passphrase>
OsslEncPass(passphrase, data, salt) ==
  Let(Kdf(passphrase, salt), LAMBDA k :
    Good(Salted \o salt \o OsslAesCbcEncrypt(k.key, k.iv, data).val))

\* openssl enc -d -aes-256-cbc -salt -pass pass:<passphrase>
OsslDecPass(passphrase, raw) ==
  IF Len(raw) < 16 \/ SubSeq(raw, 1, 8) # Salted THEN Diag("bad magic number")
  ELSE Let(Kdf(passphrase, SubSeq(raw, 9, 16)), LAMBDA k :
         OsslAesCbcDecrypt(k.key, k.iv, SubSeq(raw, 17, Len(raw))))

\* ------------------------------------------------------- the functions
\* A function of the program is an operator on a world w and its arguments:
\*   w.fs      the file system          w.clip   the clipboard
\*   w.calls   the openssl processes started and helper calls made, in order
\*   w.writes  every (path, data) written to disk, temporary files included
\*   w.tf      which of the coming write_temp_file calls fails (0: none)
\* It returns [w, st, val, err, diag]: st is "ok" (val is the return value),
\* "err" (an Exception was raised, err names it, diag is what its message
\* carries of a process's standard error) or "exit" (sys.exit was called).
Ok(w, v) == [w |-> w, st |-> "ok", val |-> v, err |-> "", diag |-> ""]
Err(w, e) == [w |-> w, st |-> "err", val |-> <<>>, err |-> e, diag |-> ""]
ErrDiag(w, e, d) == [w |-> w, st |-> "err", val |-> <<>>, err |-> e, diag |-> d]
Exit(w) == [w |-> w, st |-> "exit", val |-> <<>>, err |-> "SystemExit", diag |-> ""]
Other(w, st) == [w |-> w, st |-> st, val |-> <<>>, err |-> "", diag |-> ""]

LogCall(w, fn, a, r) == [w EXCEPT !.calls = Append(@, [fn |-> fn, in |-> a, out |-> r])]

WriteFile(w, path, data) ==
  [w EXCEPT !.fs = [p \in DOMAIN w.fs \cup {path} |-> IF p = path THEN data ELSE w.fs[p]],
            !.writes = @ \cup {[path |-> path, data |-> data]}]

TmpPrefix == <<47, 116, 109, 112, 47, 116, 109, 112>>                  \* "/tmp/tmp"
IsTmpPath(p) == StartsWith(p, TmpPrefix)

\* tempfile.NamedTemporaryFile picks an unused name: the first unused one
TmpName(files, suffix) ==
  TmpPrefix
  \o <<48 + Min({i \in 0..9 : TmpPrefix \o <<48 + i>> \o suffix \notin DOMAIN files})>>
  \o suffix

write_temp_file(w, data, suffix) ==
  IF w.tf = 1
  THEN Err(LogCall([w EXCEPT !.tf = 0], "write_temp_file", <<suffix>>, Diag("OSError")),
           "OSError")
  ELSE Let(TmpName(w.fs, suffix), LAMBDA name :
         IF data = None
         THEN Err(WriteFile([w EXCEPT !.tf = IF @ > 1 THEN @ - 1 ELSE 0], name, <<>>),
                  "TypeError")
         ELSE Ok(WriteFile([w EXCEPT !.tf = IF @ > 1 THEN @ - 1 ELSE 0], name, data), name))

remove_file_silent(w, path) ==
  [w EXCEPT !.fs = [p \in DOMAIN w.fs \ {path} |-> w.fs[p]]]

\* run_openssl(args): the process result r is [ok, val, diag]; a missing
\* executable ends the program, a non-zero return code raises unless
\* check=False, with the standard error in the message (line 76)
run_openssl(w, fn, a, r, check) ==
  IF openssl = "absent" THEN Exit(w)
  ELSE IF check /\ ~r.ok THEN ErrDiag(LogCall(w, fn, a, r), "RuntimeError", r.diag)
  ELSE Ok(LogCall(w, fn, a, r), r.val)

\* subprocess.Popen(["openssl", ...]).communicate(data) and the returncode
\* test, which raises with err.decode() in the message
popen_openssl(w, fn, a, r) ==
  IF openssl = "absent" THEN Err(w, "FileNotFoundError")
  ELSE IF ~r.ok THEN ErrDiag(LogCall(w, fn, a, r), "RuntimeError", r.diag)
  ELSE Ok(LogCall(w, fn, a, r), r.val)

\* copy_to_clipboard(text), lines 86-91: without pyperclip a note is printed;
\* pyperclip.copy raises where it finds no copy mechanism
copy_to_clipboard(w, text) ==
  IF ~CLIP THEN Ok(w, <<>>)
  ELSE IF ~backend
  THEN Err(LogCall(w, "copy_to_clipboard", <<>>, Diag("PyperclipException")),
           "PyperclipException")
  ELSE Ok(LogCall([w EXCEPT !.clip = text], "copy_to_clipboard", <<>>, Good(<<>>)), <<>>)

\* paste_from_clipboard(), lines 93-98
paste_from_clipboard(w) ==
  IF ~CLIP THEN Err(w, "RuntimeError")
  ELSE IF ~backend
  THEN Err(LogCall(w, "paste_from_clipboard", <<>>, Diag("PyperclipException")),
           "PyperclipException")
  ELSE Ok(w, w.clip)

\* try: ... except Exception: pass, around a call that did r
Swallowed(r) == r.w

\* an exception that no handler catches ends the program
Crash(r) == [r EXCEPT !.st = "crash"]

generate_rsa_keypair(w, bits, id) ==
  Let(run_openssl(w, "genpkey", <<bits>>, OsslGenpkey(bits, id), TRUE), LAMBDA g :
  IF g.st # "ok" THEN g ELSE
  Let(write_temp_file(g.w, g.val, SufPem), LAMBDA t :
  IF t.st # "ok" THEN t ELSE
  Let(run_openssl(t.w, "pkey-pubout", <<t.val>>, OsslPubout(t.w.fs[t.val]), TRUE), LAMBDA p :
  Let(remove_file_silent(p.w, t.val), LAMBDA w2 :
  IF p.st # "ok" THEN [p EXCEPT !.w = w2]
  ELSE Ok(w2, <<BytesRstrip(g.val), BytesRstrip(p.val)>>)))))

rsa_encrypt_with_pubkey(w, pub_pem_bytes, plaintext, seed) ==
  Let(write_temp_file(LogCall(w, "rsa_encrypt_with_pubkey", <<pub_pem_bytes, plaintext>>,
                              Good(<<>>)),
                      pub_pem_bytes, SufPubPem), LAMBDA tp :
  IF tp.st # "ok" THEN tp ELSE
  Let(write_temp_file(tp.w, plaintext, SufBin), LAMBDA ti :
  IF ti.st # "ok" THEN ti ELSE
  Let(run_openssl(ti.w, "pkeyutl-encrypt", <<tp.val, ti.val>>,
                  OsslRsaEncrypt(ti.w.fs[tp.val], ti.w.fs[ti.val], seed), TRUE), LAMBDA r :
  Let(remove_file_silent(remove_file_silent(r.w, tp.val), ti.val), LAMBDA w2 :
  IF r.st # "ok" THEN [r EXCEPT !.w = w2]
  ELSE Ok(w2, TagRsa \o <<NL>> \o B64Encode(r.val))))))

rsa_decrypt_with_privkey(w, priv_pem_bytes, ciphertext_b64) ==
  Let(write_temp_file(LogCall(w, "rsa_decrypt_with_privkey", <<ciphertext_b64>>, Good(<<>>)),
                      priv_pem_bytes, SufPrivPem), LAMBDA tp :
  IF tp.st # "ok" THEN tp ELSE
  Let(B64Decode(ciphertext_b64), LAMBDA d :
  IF ~d.ok THEN Err(tp.w, "binascii.Error") ELSE
  Let(write_temp_file(tp.w, d.val, SufEnc), LAMBDA ti :
  IF ti.st # "ok" THEN ti ELSE
  Let(run_openssl(ti.w, "pkeyutl-decrypt", <<tp.val, ti.val>>,
                  OsslRsaDecrypt(ti.w.fs[tp.val], ti.w.fs[ti.val]), TRUE), LAMBDA r :
  [r EXCEPT !.w = remove_file_silent(remove_file_silent(r.w, tp.val), ti.val)]))))

\* a limit that counts the hash once
rsa_max_plain_one_hash(bits) == bits \div 8 - OaepHashLen - 2

rsa_max_plain_bytes(bits) ==
  LET k == bits \div 8
      h == OaepHashLen
  IN k - 2 * h - 2

aes256_encrypt_bytes(w, passphrase, data, salt) ==
  Let(popen_openssl(w, "enc-pass", <<passphrase, data>>, OsslEncPass(passphrase, data, salt)),
      LAMBDA r : IF r.st # "ok" THEN r
                 ELSE Ok(r.w, TagAes \o <<NL>> \o B64Encode(r.val)))

\* a decryption that hands the payload to openssl without decoding it
aes256_decrypt_undecoded(w, passphrase, payload_b64) ==
  popen_openssl(w, "dec-pass", <<passphrase, payload_b64>>, OsslDecPass(passphrase, payload_b64))

aes256_decrypt_bytes(w0, passphrase, payload_b64) ==
  Let(LogCall(w0, "aes256_decrypt_bytes", <<passphrase, payload_b64>>, Good(<<>>)), LAMBDA w :
  Let(B64Decode(payload_b64), LAMBDA raw :
    IF ~raw.ok THEN Err(w, "binascii.Error")
    ELSE popen_openssl(w, "dec-pass", <<passphrase, raw.val>>, OsslDecPass(passphrase, raw.val))))

\* key material with the IV put first
KeyblobIvFirst(key, iv) == iv \o key

\* efile_hybrid_encrypt, line 218: the key material that RSA wraps
Keyblob(key, iv) == key \o iv

\* the value that the operating system's random source gives at its n-th
\* draw: no two draws give the same value
TokenBytes(n, nbytes) == Rep(nbytes, n)

\* a source that gives again the value drawn first, as a key kept by the
\* program and reused would be
token_bytes_kept(w, nbytes) == Ok(w, TokenBytes(1, nbytes))

\* secrets.token_bytes(nbytes): the next value of the random source
token_bytes(w, nbytes) == Ok([w EXCEPT !.rnd = @ + 1], TokenBytes(w.rnd + 1, nbytes))

\* an envelope with a newline after each base64 text, as base64.encodebytes
\* would leave it
PackageEncodebytes(enc_key, out) ==
  TagHybrid \o <<NL>> \o B64Encode(enc_key) \o <<NL, NL>> \o B64Encode(out) \o <<NL>>

\* efile_hybrid_encrypt, line 230: the envelope
Package(enc_key, out) ==
  TagHybrid \o <<NL>> \o B64Encode(enc_key) \o <<NL>> \o B64Encode(out)

\* efile_hybrid_encrypt, lines 209-240, with the key and IV of lines 206-207
efile_sealed(w, pub_pem_bytes, file_path, key, iv, seed) ==
  Let(popen_openssl(w, "enc-raw", <<Hex(key), Hex(iv), w.fs[file_path]>>,
                    OsslEncRaw(Hex(key), Hex(iv), w.fs[file_path])), LAMBDA a :
  IF a.st # "ok" THEN a ELSE
  Let(write_temp_file(a.w, pub_pem_bytes, SufPubPem), LAMBDA tp :
  IF tp.st # "ok" THEN tp ELSE
  Let(write_temp_file(tp.w, Keyblob(key, iv), SufBin), LAMBDA tk :
  IF tk.st # "ok" THEN tk ELSE
  Let(run_openssl(tk.w, "pkeyutl-encrypt", <<tp.val, tk.val>>,
                  OsslRsaEncrypt(tk.w.fs[tp.val], tk.w.fs[tk.val], seed), TRUE), LAMBDA r :
  Let(remove_file_silent(remove_file_silent(r.w, tp.val), tk.val), LAMBDA w2 :
  IF r.st # "ok" THEN [r EXCEPT !.w = w2] ELSE
  Let(Package(r.val, a.val), LAMBDA package :
  Ok(Swallowed(copy_to_clipboard(WriteFile(w2, file_path \o SufEnc, package),
                                 Utf8Decode(package).val)),
     file_path \o SufEnc)))))))

\* efile_hybrid_encrypt: the file is read, then the key and the IV are drawn
efile_hybrid_encrypt(w, pub_pem_bytes, file_path, seed) ==
  IF file_path \notin DOMAIN w.fs THEN Err(w, "FileNotFoundError") ELSE
  Let(token_bytes(w, AesKeyLen), LAMBDA key :
  Let(token_bytes(key.w, AesIvLen), LAMBDA iv :
  efile_sealed(iv.w, pub_pem_bytes, file_path, key.val, iv.val, seed)))

\* a size test that only asks for enough bytes, as a slicing reader would
KeyblobAtLeast(keyblob) == Len(keyblob) >= KeyblobLen

\* dfile_hybrid_decrypt, line 262: the size test of the unwrapped key blob
KeyblobOk(keyblob) == Len(keyblob) = KeyblobLen

\* dfile_hybrid_decrypt, lines 275-276: the output path when none is given
DefaultOutPath(enc_file_path) == Replace(enc_file_path, SufEnc, SufDec)

\* a dfile that opens its output file before it has the plaintext
dfile_writing_first(w, keyblob, ciphertext_b64, enc_file_path, out_path) ==
  IF ~KeyblobOk(keyblob) THEN Err(w, "RuntimeError") ELSE
  Let(Slice(keyblob, 0, AesKeyLen), LAMBDA key :
  Let(Slice(keyblob, AesKeyLen, Len(keyblob)), LAMBDA iv :
  Let(B64Decode(ciphertext_b64), LAMBDA cipher_raw :
  IF ~cipher_raw.ok THEN Err(w, "binascii.Error") ELSE
  Let(IF out_path = None THEN DefaultOutPath(enc_file_path) ELSE out_path, LAMBDA op :
  Let(popen_openssl(WriteFile(w, op, <<>>), "dec-raw", <<Hex(key), Hex(iv), cipher_raw.val>>,
                    OsslDecRaw(Hex(key), Hex(iv), cipher_raw.val)), LAMBDA a :
  IF a.st # "ok" THEN a ELSE Ok(WriteFile(a.w, op, a.val), op))))))

\* dfile_hybrid_decrypt from line 262 on: keyblob is what the RSA step returned
dfile_after_unwrap(w, keyblob, ciphertext_b64, enc_file_path, out_path) ==
  IF ~KeyblobOk(keyblob) THEN Err(w, "RuntimeError") ELSE
  Let(Slice(keyblob, 0, AesKeyLen), LAMBDA key :
  Let(Slice(keyblob, AesKeyLen, Len(keyblob)), LAMBDA iv :
  Let(B64Decode(ciphertext_b64), LAMBDA cipher_raw :
  IF ~cipher_raw.ok THEN Err(w, "binascii.Error") ELSE
  Let(popen_openssl(w, "dec-raw", <<Hex(key), Hex(iv), cipher_raw.val>>,
                    OsslDecRaw(Hex(key), Hex(iv), cipher_raw.val)), LAMBDA a :
  IF a.st # "ok" THEN a ELSE
  Let(IF out_path = None THEN DefaultOutPath(enc_file_path) ELSE out_path, LAMBDA op :
  Ok(WriteFile(a.w, op, a.val), op))))))

\* dfile_hybrid_decrypt, lines 245-249: the sections of the envelope, or
\* [ok |-> FALSE] where the tag test or an index raises
HybridSections(raw) ==
  IF ~StartsWith(raw, TagHybrid \o <<NL>>) THEN [ok |-> FALSE, val |-> <<>>, err |-> "RuntimeError"]
  ELSE Let(Split(raw, NL, 2), LAMBDA parts :
         IF Len(parts) < 3 THEN [ok |-> FALSE, val |-> <<>>, err |-> "IndexError"]
         ELSE [ok |-> TRUE, val |-> <<parts[2], parts[3]>>, err |-> ""])

dfile_hybrid_decrypt(w0, priv_pem_bytes, enc_file_path, out_path) ==
  Let(LogCall(w0, "dfile_hybrid_decrypt", <<enc_file_path>>, Good(<<>>)), LAMBDA w :
  IF enc_file_path \notin DOMAIN w.fs THEN Err(w, "FileNotFoundError") ELSE
  Let(HybridSections(w.fs[enc_file_path]), LAMBDA sec :
  IF ~sec.ok THEN Err(w, sec.err) ELSE
  Let(B64Decode(sec.val[1]), LAMBDA enc_key :
  IF ~enc_key.ok THEN Err(w, "binascii.Error") ELSE
  Let(write_temp_file(w, priv_pem_bytes, SufPrivPem), LAMBDA tp :
  IF tp.st # "ok" THEN tp ELSE
  Let(write_temp_file(tp.w, enc_key.val, SufBin), LAMBDA te :
  IF te.st # "ok" THEN te ELSE
  Let(run_openssl(te.w, "pkeyutl-decrypt", <<tp.val, te.val>>,
                  OsslRsaDecrypt(te.w.fs[tp.val], te.w.fs[te.val]), TRUE), LAMBDA r :
  Let(remove_file_silent(remove_file_silent(r.w, tp.val), te.val), LAMBDA w2 :
  IF r.st # "ok" THEN [r EXCEPT !.w = w2]
  ELSE dfile_after_unwrap(w2, r.val, sec.val[2], enc_file_path, out_path))))))))

\* a payload taken without dropping the first line
PayloadWhole(t) == [ok |-> TRUE, val |-> StrStrip(t)]

\* lines 336, 350, 513, 528: the payload of a tagged text t, after its first
\* line; [ok, val], ok is FALSE where the index [1] raises IndexError
PayloadOf(t) ==
  Let(Split(t, NL, 1), LAMBDA parts :
    IF Len(parts) < 2 THEN [ok |-> FALSE, val |-> <<>>]
    ELSE [ok |-> TRUE, val |-> StrStrip(parts[2])])

\* an exception of the decryption, wrapped as lines 340-341 and 353-354 do:
\* the new message holds the message of the first
Rewrapped(r) == IF r.st = "err" THEN ErrDiag(r.w, "RuntimeError", r.diag) ELSE r

\* import_public_key_from_text: the PEM branch returns t.encode() whether or
\* not its body decodes; the AES branch asks for the password
import_public_key_from_text(w, text, my_priv_pem, passphrase) ==
  Let(StrStrip(text), LAMBDA t :
  IF StartsWith(t, PemBeginPublic) THEN Ok(w, Utf8Encode(t))
  ELSE IF StartsWith(t, TagAes)
  THEN Let(PayloadOf(t), LAMBDA b64 :
         IF ~b64.ok THEN Err(w, "IndexError")
         ELSE Rewrapped(aes256_decrypt_bytes(w, passphrase, Utf8Encode(b64.val))))
  ELSE IF StartsWith(t, TagRsa)
  THEN IF my_priv_pem = None THEN Err(w, "RuntimeError")
       ELSE Let(PayloadOf(t), LAMBDA b64 :
              IF ~b64.ok THEN Err(w, "IndexError")
              ELSE Rewrapped(rsa_decrypt_with_privkey(w, my_priv_pem, Utf8Encode(b64.val))))
  ELSE Err(w, "RuntimeError"))

\* a detection that takes the number of any "Public-Key: (N bit)" line
detect_bits_any_label(w, pub, more) ==
  IF more /\ pub = <<>> THEN Ok(w, DefaultBits) ELSE
  Let(write_temp_file(w, pub, SufPubPem), LAMBDA t :
  IF t.st # "ok" THEN Ok(t.w, DefaultBits) ELSE
  Let(OsslPkeyText(t.w.fs[t.val]), LAMBDA info :
  Let(run_openssl(t.w, "pkey-text", <<t.val>>, Good(<<>>), FALSE), LAMBDA r :
  Let(remove_file_silent(r.w, t.val), LAMBDA w2 :
  IF r.st = "exit" THEN Exit(w2)
  ELSE Ok(w2, IF info.label # "none" THEN info.bits ELSE DefaultBits)))))

\* main, lines 649-666 and 700-710: the size of their_pub found in the output
\* of "openssl pkey -text", 2048 when the pattern does not match or the
\* attempt raises.  [w, st, val]: st is "exit" when openssl is missing.
detect_bits(w, pub, more) ==
  IF more /\ pub = <<>> THEN Ok(w, DefaultBits) ELSE
  Let(write_temp_file(w, pub, SufPubPem), LAMBDA t :
  IF t.st # "ok" THEN Ok(t.w, DefaultBits) ELSE
  Let(OsslPkeyText(t.w.fs[t.val]), LAMBDA info :
  Let(run_openssl(t.w, "pkey-text", <<t.val>>, Good(<<>>), FALSE), LAMBDA r :
  Let(remove_file_silent(r.w, t.val), LAMBDA w2 :
  IF r.st = "exit" THEN Exit(w2)
  ELSE Ok(w2, IF info.label = "RSA Public-Key" THEN info.bits ELSE DefaultBits)))))

\* a size test that also refuses a plaintext of exactly the limit
TooLongAtLimit(nbytes, max_plain) == nbytes >= max_plain

\* main, lines 668 and 712: len(plaintext) > max_plain
TooLong(nbytes, max_plain) == nbytes > max_plain

\* main, lines 667-676 and 711-720: the size test and the encryption of the
\* 'more' and the single-line paths.  st: "ok", "toolong", "err" or "exit".
\* The detected size and the limit are logged as the call "size-check".
encrypt_message(w, pub, plaintext, seed, more) ==
  Let(detect_bits(w, pub, more), LAMBDA d :
  IF d.st = "exit" THEN d ELSE
  Let(rsa_max_plain_bytes(d.val), LAMBDA max_plain :
  Let(LogCall(d.w, "size-check", <<Len(plaintext), d.val, max_plain>>, Good(<<>>)), LAMBDA w1 :
  IF TooLong(Len(plaintext), max_plain) THEN Other(w1, "toolong") ELSE
  Let(rsa_encrypt_with_pubkey(w1, pub, plaintext, seed), LAMBDA e :
  IF e.st # "ok" THEN e ELSE
  Let(copy_to_clipboard(e.w, Utf8Decode(e.val).val), LAMBDA c :
  IF c.st # "ok" THEN c ELSE Ok(c.w, e.val))))))

\* main, lines 515-522 and 530-537: the plaintext is printed, or written to
\* output.dec where it does not decode
Shown(r) ==
  IF r.st # "ok" THEN r
  ELSE IF Utf8Decode(r.val).ok THEN r
  ELSE Ok(WriteFile(r.w, OutputDec, r.val), r.val)

\* whether sub occurs in s
Contains(s, sub) ==
  \E i \in 1..(Len(s) - Len(sub) + 1) : SubSeq(s, i, i + Len(sub) - 1) = sub

\* a choice of decoder by the cipher that the text names anywhere
DecoderByKeyword(t) ==
  IF Contains(t, <<65, 69, 83>>) THEN "aes256_decrypt_bytes"
  ELSE IF Contains(t, <<82, 83, 65>>) THEN "rsa_decrypt_with_privkey"
  ELSE "none"

\* main, lines 512, 524, 538, 545: the if/elif chain over the stripped text
Decoder(t) ==
  IF StartsWith(t, TagAes) THEN "aes256_decrypt_bytes"
  ELSE IF StartsWith(t, TagRsa) THEN "rsa_decrypt_with_privkey"
  ELSE IF StartsWith(t, TagHybrid) THEN "dfile_hybrid_decrypt"
  ELSE "none"

\* main, lines 510-549: the clipboard-decrypt command on the clipboard text
clip_decrypt(w, raw_text, priv, passphrase) ==
  Let(StrStrip(raw_text), LAMBDA t :
  IF Decoder(t) = "aes256_decrypt_bytes"
  THEN Let(PayloadOf(t), LAMBDA b64 :
         IF ~b64.ok THEN Err(w, "IndexError")
         ELSE Shown(aes256_decrypt_bytes(w, passphrase, Utf8Encode(b64.val))))
  ELSE IF Decoder(t) = "rsa_decrypt_with_privkey"
  THEN IF priv = None THEN Other(w, "nokey")
       ELSE Let(PayloadOf(t), LAMBDA b64 :
              IF ~b64.ok THEN Err(w, "IndexError")
              ELSE Shown(rsa_decrypt_with_privkey(w, priv, Utf8Encode(b64.val))))
  ELSE IF Decoder(t) = "dfile_hybrid_decrypt"
  THEN Let(write_temp_file(w, Utf8Encode(t), SufHybrid), LAMBDA tmp :
         IF tmp.st # "ok" THEN tmp
         ELSE Let(dfile_hybrid_decrypt(tmp.w, priv, tmp.val, None), LAMBDA r :
                [r EXCEPT !.w = remove_file_silent(r.w, tmp.val)]))
  ELSE Other(w, "notrecognised"))

\* main, lines 499-720: which branch of enc/dec mode takes the line cmd
CmdBack == <<98, 97, 99, 107>>                                         \* "back"
CmdExec == <<101, 120, 101, 99>>                                       \* "exec"
CmdExit == <<101, 120, 105, 116>>                                      \* "exit"
CmdQuit == <<113, 117, 105, 116>>                                      \* "quit"
CmdClear == <<99, 108, 101, 97, 114>>                                  \* "clear"
CmdHelp == <<104, 101, 108, 112>>                                      \* "help"
CmdEfile == <<101, 102, 105, 108, 101, SP>>                            \* "efile "
CmdDfile == <<100, 102, 105, 108, 101, SP>>                            \* "dfile "
CmdMore == <<109, 111, 114, 101>>                                      \* "more"
CmdEpublic == <<101, 112, 117, 98, 108, 105, 99>>                      \* "epublic"
CmdEsecret == <<101, 115, 101, 99, 114, 101, 116>>                     \* "esecret"

Dispatch(cmd) ==
  IF cmd = <<>> THEN "clip"
  ELSE IF Lower(cmd) = CmdBack THEN "back"
  ELSE IF StartsWith(cmd, CmdExec) THEN "exec"
  ELSE IF Lower(cmd) \in {CmdExit, CmdQuit} THEN "exit"
  ELSE IF Lower(cmd) = CmdClear THEN "clear"
  ELSE IF Lower(cmd) = CmdHelp THEN "help"
  ELSE IF StartsWith(cmd, CmdEfile) THEN "efile"
  ELSE IF StartsWith(cmd, CmdDfile) THEN "dfile"
  ELSE IF Lower(StrStrip(cmd)) = CmdMore THEN "more"
  ELSE IF Lower(StrStrip(cmd)) = CmdEpublic THEN "epublic"
  ELSE IF Lower(StrStrip(cmd)) = CmdEsecret THEN "esecret"
  ELSE "line"

\* execute_command(command), lines 20-42: the command goes to the shell
execute_command(w, command) ==
  Ok(LogCall(w, "execute_command", <<command>>, Good(<<>>)), command)

\* main, lines 553-564: the shell command an "exec..." line runs, None when
\* it only prints the usage
ExecCommand(cmd) ==
  IF Lower(cmd) = CmdExec THEN None
  ELSE IF StrStrip(Slice(cmd, 5, Len(cmd))) = <<>> THEN None
  ELSE StrStrip(Slice(cmd, 5, Len(cmd)))

\* main, lines 604-605 and 618-619: the path argument of efile and dfile
PathArg(cmd) == StrStrip(Split(cmd, SP, 1)[2])

\* ---------------------------------------------------------------- inputs
\* how many key pairs a session generates, and how many leaked temporary
\* files it may hold before commands that need temporary files stop
MaxKeys == 1
\* and how many where the session is followed through a regeneration
MaxRegen == 2
MaxLeak == 0
\* the values drawn from the random source in a session: two for each efile
MaxDraws == 4

\* which write_temp_file call of a command fails (0: none)
TmpFaults == 0..2

Text_hi == <<104, 105>>                                                \* "hi"
Text_hello == <<104, 101, 108, 108, 111>>                              \* "hello"
Pw == <<112, 119>>                                                     \* "pw"
PwWrong == <<112, 120>>                                                \* "px"
Passwords == {Pw, PwWrong}
Salt0 == Rep(8, 5)
Key0 == [i \in 1..AesKeyLen |-> i]
Iv0 == [i \in 1..AesIvLen |-> 100 + i]
Seed0 == 1

Peer1024 == [bits |-> 1024, id |-> 9]
Peer4096 == [bits |-> 4096, id |-> 8]

PathM == <<109>>                                                       \* "m"
PathK == <<107>> \o SufPem                                             \* "k.pem"
PathIn == <<102>> \o SufEnc \o SufEnc                                  \* "f.enc.enc"
PathNone == <<110, 111>>                                               \* "no"

\* envelopes as the other side, which holds pub, makes them
RsaEnvelope(pub, m) == TagRsa \o <<NL>> \o B64Encode(OsslRsaEncrypt(pub, m, Seed0).val)
AesEnvelope(pw, m) == TagAes \o <<NL>> \o B64Encode(OsslEncPass(pw, m, Salt0).val)
HybridEnvelope(pub, blob, data) ==
  TagHybrid \o <<NL>> \o B64Encode(OsslRsaEncrypt(pub, blob, Seed0).val) \o <<NL>>
  \o B64Encode(OsslAesCbcEncrypt(Slice(blob, 0, 32), Slice(blob, 32, 48), data).val)

\* a hybrid envelope whose ciphertext has lost its last byte
HybridCut(pub, blob, data) ==
  TagHybrid \o <<NL>> \o B64Encode(OsslRsaEncrypt(pub, blob, Seed0).val) \o <<NL>>
  \o B64Encode(AllButLast(OsslAesCbcEncrypt(Slice(blob, 0, 32), Slice(blob, 32, 48), data).val))

\* hybrid envelopes for the key pub: well-formed, with a 47- and a 49-byte key
\* blob, with two and with four sections, with a longer first line, and with
\* a ciphertext cut short
HybridTexts(pub) ==
  { HybridEnvelope(pub, Key0 \o Iv0, Text_hi),
    HybridCut(pub, Key0 \o Iv0, Text_hi),
    HybridEnvelope(pub, SubSeq(Key0 \o Iv0, 1, 47), Text_hi),
    HybridEnvelope(pub, Key0 \o Iv0 \o <<0>>, Text_hi),
    TagHybrid \o <<NL>> \o B64Encode(OsslRsaEncrypt(pub, Key0 \o Iv0, Seed0).val),
    HybridEnvelope(pub, Key0 \o Iv0, Text_hi) \o <<NL>> \o B64Encode(Text_hello),
    TagHybrid \o <<88>> \o SubSeq(HybridEnvelope(pub, Key0 \o Iv0, Text_hi),
                                  Len(TagHybrid) + 1,
                                  Len(HybridEnvelope(pub, Key0 \o Iv0, Text_hi))) }

\* what the user may have copied: plain text, envelopes of each kind for the
\* key pub (well-formed, with a longer first line, without payload, with a
\* payload that is not base64, below a line of plain text), and public keys
\* of the other side
ClipTexts(pub) ==
  { Text_hello,
    AesEnvelope(Pw, Text_hi),
    TagAes \o <<88>> \o SubSeq(AesEnvelope(Pw, Text_hi), Len(TagAes) + 1,
                               Len(AesEnvelope(Pw, Text_hi))),
    TagAes,
    RsaEnvelope(pub, Text_hi),
    TagRsa \o <<88>> \o SubSeq(RsaEnvelope(pub, Text_hi), Len(TagRsa) + 1,
                               Len(RsaEnvelope(pub, Text_hi))),
    TagRsa \o <<NL, 81>>,
    PubPem(Peer1024),
    PubPem(Peer4096),
    AesEnvelope(Pw, BytesRstrip(PubPem(Peer4096))),
    Text_hello \o <<NL>> \o RsaEnvelope(pub, Text_hi) }
  \cup HybridTexts(pub)

\* a message that begins with the letters of a command
LineExecute == CmdExec \o <<117, 116, 101, SP, 108, 115>>                \* "execute ls"

\* the lines typed in enc/dec mode
MsgLines == {Text_hi, Rep(63, 97), Rep(190, 97), Rep(191, 97)}
MoreTexts == {Text_hi \o <<NL>> \o Text_hi, Rep(190, 98), Rep(191, 98)}
CmdLines ==
  {<<>>, CmdBack, CmdExec, CmdExec \o <<SP, 108, 115>>, LineExecute, CmdExit, CmdClear, CmdHelp,
   CmdEfile \o PathM, CmdEfile \o PathNone, CmdDfile \o PathIn, CmdDfile \o PathM \o SufEnc,
   CmdMore, CmdEpublic, CmdEsecret}
  \cup MsgLines

\* the typed lines that each branch of enc/dec mode takes
LinesOf(kinds) == {cmd \in CmdLines : Dispatch(cmd) \in kinds}
SimpleLines == LinesOf({"back", "exec", "exit", "clear", "help"})
EfileLines == LinesOf({"efile"})
DfileLines == LinesOf({"dfile"})
MoreLines == LinesOf({"more"})
ExportLines == LinesOf({"epublic", "esecret"})
PlainLines == LinesOf({"line"})

\* ------------------------------------------------ mouse_seed_generator_advanced
\* MouseSeedGenerator and quick_seed().  Time is counted in hundredths of a
\* second; a mouse position is a pair of screen coordinates.

\* time.time() when the generator is constructed
Epoch0 == 1000
\* __init__ defaults, lines 92-94: min_distance=1.0, max_points=1000, sampling_rate=0.01
min_distance == 1
max_points == 1000
sampling_rate == 1
\* quick_seed, line 718: duration=1.0
QuickDuration == 100
\* start_collecting, line 293: time.sleep(0.1); line 295: the 0.5 s between displays
LoopSleep == 10
DisplayEvery == 50

\* the attributes that __init__ assigns, lines 97-121
InitAttrs ==
  {"min_distance", "max_points", "sampling_rate", "data_points", "raw_points", "last_point",
   "last_sample_time", "total_distance", "total_samples", "stagnant_points", "start_time",
   "mouse_controller", "mouse_listener", "is_listening", "enable_display", "console",
   "display_layout"}

\* MouseSeedGenerator(enable_display=False) as __init__ leaves it, lines 91-124;
\* pc is where quick_seed stands, pynput is the module global PYNPUT_AVAILABLE
\* MouseSeedGenerator(min_distance=md, max_points=mp, enable_display=False) as
\* __init__ leaves it, lines 91-124
GeneratorWith(pc, pynput, md, mp) ==
  [pc |-> pc, pynput |-> pynput, now |-> Epoch0, attrs |-> InitAttrs,
   min_distance |-> md, max_points |-> mp, raw_points |-> <<>>, total_distance |-> 0,
   data_points |-> <<>>, last_point |-> <<>>, last_sample_time |-> 0, last_display_time |-> 0,
   total_samples |-> 0, stagnant_points |-> 0, start_time |-> Epoch0, loop_start |-> 0,
   is_listening |-> FALSE, mouse_listener |-> FALSE, sim_thread |-> FALSE,
   interrupted |-> FALSE, displayed |-> 0, seed |-> -1, error |-> ""]

\* the generator of quick_seed, with the defaults of __init__
NewGenerator(pc, pynput) == GeneratorWith(pc, pynput, min_distance, max_points)

\* list.append: what a deque without maxlen would do
ListAppend(q, p, maxlen) == q \o <<p>>

\* deque(maxlen=max_points).append, lines 102-103, 203 and 231
DequeAppend(q, p, maxlen) == IF Len(q) >= maxlen THEN Tail(q) \o <<p>> ELSE q \o <<p>>

\* calculate_movement_metrics, lines 177-179: dx*dx + dy*dy, the square of distance
DistSq(x1, y1, x2, y2) == (x2 - x1) * (x2 - x1) + (y2 - y1) * (y2 - y1)

\* math.sqrt, line 179, of a perfect square; the floor of the root otherwise
Isqrt(n) == CHOOSE r \in 0..n : r * r <= n /\ (r + 1) * (r + 1) > n

\* calculate_movement_metrics, lines 177-179: distance
Distance(x1, y1, x2, y2) == Isqrt(DistSq(x1, y1, x2, y2))

\* add_data_point, lines 206-209 and 217: distance is 0 for the first point
DistanceFromLast(g, x, y) ==
  IF g.last_point = <<>> THEN 0 ELSE Distance(g.last_point[1], g.last_point[2], x, y)

\* is_stagnant without the test of the time that has passed
IsStagnantByDistance(g, x, y, t) ==
  /\ g.last_point # <<>>
  /\ DistanceFromLast(g, x, y) < g.min_distance

\* add_data_point, lines 206-219: the first point is never stagnant; a later
\* one is where it moved less than min_distance or less than 0.001 s has
\* passed (time is counted in hundredths of a second)
IsStagnant(g, x, y, t) ==
  /\ g.last_point # <<>>
  /\ \/ DistanceFromLast(g, x, y) < g.min_distance
     \/ t - g.last_point[3] < 1

\* add_data_point(x, y) at time t, lines 192-239: the generator it leaves
\* and the value it returns
add_data_point(g, x, y, t) ==
  Let([g EXCEPT !.total_samples = @ + 1,
                !.raw_points = DequeAppend(@, <<x, y, t>>, g.max_points)], LAMBDA g1 :
  IF ~IsStagnant(g, x, y, t)
  THEN [self |-> [g1 EXCEPT !.data_points = DequeAppend(@, <<x, y, t, DistanceFromLast(g, x, y)>>,
                                                        g.max_points),
                            !.total_distance = @ + DistanceFromLast(g, x, y),
                            !.last_point = <<x, y, t>>],
        ret |-> TRUE]
  ELSE [self |-> [g1 EXCEPT !.stagnant_points = @ + 1], ret |-> FALSE])

\* on_move(x, y) at time t, lines 250-260, with the display disabled
on_move(g, x, y, t) ==
  IF t - g.last_sample_time >= sampling_rate
  THEN [add_data_point(g, x, y, t).self EXCEPT !.last_sample_time = t, !.now = t]
  ELSE [g EXCEPT !.now = t]

\* stop_collecting, lines 304-310
stop_collecting(g) == [g EXCEPT !.is_listening = FALSE, !.mouse_listener = FALSE]

\* reading self.<name>: an attribute that was never assigned raises AttributeError
HasAttr(g, name) == name \in g.attrs

\* n % (2**31) for an integer of 32 bits
Mod2p31(n) == IF n >= 0 THEN n ELSE (n + 2147483647) + 1

\* stands for int(sha256(seed_data).hexdigest()[:16], 16): a mix of the points
\* and the time that line 364 appends
RECURSIVE DigestOf(_, _)
DigestOf(points, h) ==
  IF points = <<>> THEN h
  ELSE DigestOf(Tail(points),
                (h * 31 + Head(points)[1] * 7 + Head(points)[2] * 3 + Head(points)[3]) % 1048573)

\* the last 100 points, line 360
LastPoints(q, n) == IF Len(q) > n THEN SubSeq(q, Len(q) - n + 1, Len(q)) ELSE q

\* generate_seed_from_movement, lines 344-387
generate_seed_from_movement(g) == Mod2p31(DigestOf(LastPoints(g.data_points, 100), g.now))

\* generate_simple_seed, lines 389-396, with the mouse at (x, y)
generate_simple_seed(g, x, y) == Mod2p31(((x * 10000 + y) * g.now) \div 100)

\* get_seed("movement"), lines 649-662
get_seed(g, x, y) ==
  IF g.data_points # <<>> THEN generate_seed_from_movement(g) ELSE generate_simple_seed(g, x, y)

\* ------------------------------------------------------------ the session
W(tf) ==
  [fs |-> fs, clip |-> clipboard, calls |-> <<>>, writes |-> {}, tf |-> tf, rnd |-> drawn]

\* what a command did: its input (in: the typed argument, text: the text or
\* file content it was handed), its outcome and what it started and wrote
ObsT(op, in, text, r) ==
  [op |-> op, in |-> in, text |-> text, st |-> r.st, val |-> r.val, err |-> r.err,
   diag |-> r.diag, calls |-> r.w.calls, writes |-> r.w.writes]

Obs(op, in, r) == ObsT(op, in, <<>>, r)

Simple(op, in, st) == Obs(op, in, Other(W(0), st))

TmpFiles == {p \in DOMAIN fs : IsTmpPath(p)}
LeakOk == Cardinality(TmpFiles) <= MaxLeak

\* what a function call leaves behind
Effect(r) == fs' = r.w.fs /\ clipboard' = r.w.clip /\ drawn' = r.w.rnd

\* the content of the file at path, as a command that reads it is handed it
FileText(path) == IF path \in DOMAIN fs THEN fs[path] ELSE <<>>

Init ==
  /\ menu = "main"
  /\ my_priv = None /\ my_pub = None /\ their_pub = None
  /\ clipboard = <<>>
  /\ fs = [p \in {PathM, PathK} |-> IF p = PathM THEN Text_hi ELSE PubPem(Peer1024)]
  /\ openssl \in {"v1", "v3", "absent"}
  /\ CLIP \in BOOLEAN
  /\ backend \in (IF CLIP THEN BOOLEAN ELSE {FALSE})
  /\ ngen = 0
  /\ drawn = 0
  /\ generator = NewGenerator("off", FALSE)
  /\ last = Simple("start", <<>>, "ok")

\* main menu, lines 385-394: "0" leaves, "2" prints the guide, others re-prompt
MainChoice(choice) ==
  /\ menu = "main"
  /\ choice # "1"
  /\ menu' = IF choice = "0" THEN "exited" ELSE "main"
  /\ last' = Simple("main", <<>>, IF choice = "0" THEN "exit" ELSE IF choice = "2" THEN "guide" ELSE "invalid")
  /\ UNCHANGED <<my_priv, my_pub, their_pub, clipboard, fs, host, ngen, drawn>>

\* a generation that drops the private key it holds when it fails
GeneratedOrDropped(bits, r) ==
  /\ Effect(r)
  /\ last' = Obs("generate", <<bits>>, r)
  /\ menu' = IF r.st = "ok" THEN "postgen" ELSE IF r.st = "exit" THEN "exited" ELSE "main"
  /\ my_priv' = IF r.st = "ok" THEN r.val[1] ELSE IF r.st = "err" THEN None ELSE my_priv
  /\ my_pub' = IF r.st = "ok" THEN r.val[2] ELSE my_pub
  /\ ngen' = IF r.st = "ok" THEN ngen + 1 ELSE ngen

\* main menu "1", lines 408-412: r is what generate_rsa_keypair(bits) did
Generated(bits, r) ==
  /\ Effect(r)
  /\ last' = Obs("generate", <<bits>>, r)
  /\ menu' = IF r.st = "ok" THEN "postgen" ELSE IF r.st = "exit" THEN "exited" ELSE "main"
  /\ my_priv' = IF r.st = "ok" THEN r.val[1] ELSE my_priv
  /\ my_pub' = IF r.st = "ok" THEN r.val[2] ELSE my_pub
  /\ ngen' = IF r.st = "ok" THEN ngen + 1 ELSE ngen

\* main menu "1", lines 396-412: choose the size, generate the pair; a
\* session generates up to cap key pairs
MainGenerate(alg, tf, cap) ==
  /\ menu = "main"
  /\ IF alg \notin {"1", "2", "3"}
     THEN /\ last' = Simple("generate", <<>>, "invalid")
          /\ UNCHANGED <<menu, my_priv, my_pub, fs, clipboard, ngen, drawn>>
     ELSE /\ ngen < cap
          /\ LeakOk
          /\ Generated(IF alg = "1" THEN 2048 ELSE IF alg = "2" THEN 4096 ELSE 8192,
                       generate_rsa_keypair(W(tf), IF alg = "1" THEN 2048
                                                   ELSE IF alg = "2" THEN 4096 ELSE 8192,
                                            ngen + 1))
  /\ UNCHANGED <<their_pub, host>>

\* post-generation menu, lines 421-424, 495-497, 723-725
PostMenu(sub) ==
  /\ menu = "postgen"
  /\ sub \notin {"1", "2"}
  /\ menu' = IF sub = "back" THEN "main" ELSE IF sub = "3" THEN "encdec" ELSE "postgen"
  /\ last' = Simple("postmenu", <<>>, IF sub \in {"back", "3"} THEN "ok" ELSE "invalid")
  /\ UNCHANGED <<my_priv, my_pub, their_pub, clipboard, fs, host, ngen, drawn>>

\* lines 443-447: the public key wrapped under a password, copied
ExportWrapped(e) ==
  IF e.st # "ok" THEN e
  ELSE Ok(Swallowed(copy_to_clipboard(e.w, Utf8Decode(e.val).val)), e.val)

\* r is what the export did; an exception ends the program
Exported(r) ==
  /\ Effect(r)
  /\ last' = Obs("export", <<>>, r)
  /\ menu' = IF r.st \in {"err", "exit"} THEN "exited" ELSE "postgen"

\* post-generation menu "1", lines 425-455: export the public key.  An
\* exception of aes256_encrypt_bytes is caught nowhere and ends the program.
PostExport(opt, passwd) ==
  /\ menu = "postgen"
  /\ Exported(IF opt = "1"
              THEN Ok(Swallowed(copy_to_clipboard(W(0), Utf8Decode(my_pub).val)), my_pub)
              ELSE IF opt = "2"
              THEN ExportWrapped(aes256_encrypt_bytes(W(0), passwd, my_pub, Salt0))
              ELSE Other(W(0), "invalid"))
  /\ UNCHANGED <<my_priv, my_pub, their_pub, host, ngen>>

\* the text that the import reads from the file at path (line 478)
ImportText(path) ==
  IF path \in DOMAIN fs /\ Utf8Decode(fs[path]).ok THEN Utf8Decode(fs[path]).val ELSE <<>>

\* an import that takes whatever the import function left, failed or not
ImportedAlways(in, text, r) ==
  /\ Effect(r)
  /\ last' = ObsT("import", in, text, r)
  /\ their_pub' = r.val
  /\ menu' = IF r.st = "exit" THEN "exited" ELSE "postgen"

\* r is what the import of text did
Imported(in, text, r) ==
  /\ Effect(r)
  /\ last' = ObsT("import", in, text, r)
  /\ their_pub' = IF r.st = "ok" THEN r.val ELSE their_pub
  /\ menu' = IF r.st = "exit" THEN "exited" ELSE "postgen"

\* post-generation menu "2", lines 456-494: import the other side's key
PostImport(src, path, passwd, tf) ==
  /\ menu = "postgen"
  /\ LeakOk
  /\ Imported(IF src = "1" THEN <<>> ELSE path,
              IF src = "1" THEN clipboard ELSE ImportText(path),
              IF src = "1"
              THEN IF ~CLIP THEN Other(W(tf), "noclip")
                   ELSE IF paste_from_clipboard(W(tf)).st # "ok"
                   THEN paste_from_clipboard(W(tf))
                   ELSE import_public_key_from_text(W(tf), clipboard, my_priv, passwd)
              ELSE IF src = "2"
              THEN IF path \notin DOMAIN fs THEN Other(W(tf), "nofile")
                   ELSE IF ~Utf8Decode(fs[path]).ok THEN Err(W(tf), "UnicodeDecodeError")
                   ELSE import_public_key_from_text(W(tf), ImportText(path), my_priv, passwd)
              ELSE Other(W(tf), "invalid"))
  /\ UNCHANGED <<my_priv, my_pub, host, ngen>>

\* r is what a command of enc/dec mode did: the loop goes on unless the
\* program has exited
EncDecDone(op, in, text, r) ==
  /\ Effect(r)
  /\ last' = ObsT(op, in, text, r)
  /\ menu' = IF r.st \in {"exit", "crash"} THEN "exited" ELSE "encdec"
  /\ UNCHANGED <<my_priv, my_pub, their_pub, host, ngen>>

\* enc/dec mode, empty line, lines 500-550: decrypt the clipboard.  The paste
\* of line 506 stands outside the try of line 511.
EncDecClip(cmd, passwd, tf) ==
  /\ menu = "encdec" /\ Dispatch(cmd) = "clip"
  /\ LeakOk
  /\ EncDecDone("clip", cmd, clipboard,
                IF ~CLIP THEN Other(W(tf), "noclip")
                ELSE IF paste_from_clipboard(W(tf)).st # "ok"
                THEN Crash(paste_from_clipboard(W(tf)))
                ELSE IF clipboard = <<>> THEN Other(W(tf), "empty")
                ELSE clip_decrypt(W(tf), clipboard, my_priv, passwd))

\* enc/dec mode, lines 551-602: back, exec, exit, quit, clear, help.  The
\* shell command that exec runs is kept in last.val.
EncDecSimple(cmd) ==
  /\ menu = "encdec" /\ Dispatch(cmd) \in {"back", "exec", "exit", "clear", "help"}
  /\ menu' = IF Dispatch(cmd) = "back" THEN "postgen"
             ELSE IF Dispatch(cmd) = "exit" THEN "exited" ELSE "encdec"
  /\ last' = IF Dispatch(cmd) = "exec" /\ ExecCommand(cmd) # None
             THEN Obs("exec", cmd, execute_command(W(0), ExecCommand(cmd)))
             ELSE Simple(Dispatch(cmd), cmd, "ok")
  /\ UNCHANGED <<my_priv, my_pub, their_pub, clipboard, fs, host, ngen, drawn>>

\* lines 605-616: efile on the path typed
EfileAt(path, tf) ==
  /\ drawn + 2 <= MaxDraws
  /\ EncDecDone("efile", path, FileText(path),
                IF path \notin DOMAIN fs THEN Other(W(tf), "nofile")
                ELSE IF their_pub = None THEN Other(W(tf), "nokey")
                ELSE efile_hybrid_encrypt(W(tf), their_pub, path, Seed0))

\* enc/dec mode, "efile <path>", lines 603-616
EncDecEfile(cmd, tf) ==
  /\ menu = "encdec" /\ Dispatch(cmd) = "efile"
  /\ LeakOk
  /\ EfileAt(PathArg(cmd), tf)

\* lines 619-630: dfile on the path typed
DfileAt(path, tf) ==
  EncDecDone("dfile", path, FileText(path),
             IF path \notin DOMAIN fs THEN Other(W(tf), "nofile")
             ELSE IF my_priv = None THEN Other(W(tf), "nokey")
             ELSE dfile_hybrid_decrypt(W(tf), my_priv, path, None))

\* enc/dec mode, "dfile <path>", lines 617-630
EncDecDfile(cmd, tf) ==
  /\ menu = "encdec" /\ Dispatch(cmd) = "dfile"
  /\ LeakOk
  /\ DfileAt(PathArg(cmd), tf)

\* enc/dec mode, "more", lines 631-677: text is the lines typed, joined
EncDecMore(cmd, text, tf) ==
  /\ menu = "encdec" /\ Dispatch(cmd) = "more"
  /\ LeakOk
  /\ EncDecDone("more", text, <<>>,
                IF their_pub = None THEN Other(W(tf), "nokey")
                ELSE encrypt_message(W(tf), their_pub, Utf8Encode(text), Seed0, TRUE))

\* enc/dec mode, "epublic" and "esecret", lines 678-693
EncDecExport(cmd) ==
  /\ menu = "encdec" /\ Dispatch(cmd) \in {"epublic", "esecret"}
  /\ EncDecDone(Dispatch(cmd), cmd, <<>>,
                IF Dispatch(cmd) = "epublic"
                THEN IF my_pub = None THEN Other(W(0), "nokey")
                     ELSE Ok(WriteFile(W(0), MyPublicPem, my_pub), <<>>)
                ELSE IF my_priv = None THEN Other(W(0), "nokey")
                     ELSE Ok(WriteFile(W(0), MyPrivatePem, my_priv), <<>>))

\* enc/dec mode, any other line, lines 694-720: encrypt the line
EncDecLine(cmd, tf) ==
  /\ menu = "encdec" /\ Dispatch(cmd) = "line"
  /\ LeakOk
  /\ EncDecDone("line", cmd, <<>>,
                IF their_pub = None THEN Other(W(tf), "nokey")
                ELSE encrypt_message(W(tf), their_pub, Utf8Encode(cmd), Seed0, FALSE))

\* the user copies a text, or a message of the other side, to the clipboard
EnvCopy ==
  /\ menu = "encdec" /\ CLIP
  /\ \E text \in ClipTexts(my_pub) : clipboard # text /\ clipboard' = text
  /\ last' = Simple("copy", <<>>, "ok")
  /\ UNCHANGED <<menu, my_priv, my_pub, their_pub, fs, host, ngen, drawn>>

\* a file of the other side arrives in the working directory
EnvPutFile ==
  /\ menu = "encdec"
  /\ PathIn \notin DOMAIN fs
  /\ \E data \in HybridTexts(my_pub) :
       fs' = [p \in DOMAIN fs \cup {PathIn} |-> IF p = PathIn THEN data ELSE fs[p]]
  /\ last' = Simple("putfile", <<>>, "ok")
  /\ UNCHANGED <<menu, my_priv, my_pub, their_pub, clipboard, host, ngen, drawn>>

\* the menus: key generation, export, import, entering enc/dec mode
NextMenuUpTo(cap) ==
  \/ \E choice \in {"0", "2", "x"} : MainChoice(choice)
  \/ \E alg \in {"1", "9"}, tf \in TmpFaults : MainGenerate(alg, tf, cap)
  \/ \E sub \in {"back", "3", "x"} : PostMenu(sub)
  \/ \E opt \in {"1", "2", "x"} :
       PostExport(opt, Pw)
  \/ \E src \in {"1", "2", "x"} :
       \E path \in IF src = "2" THEN {PathK, PathNone} ELSE {PathNone} :
         \E passwd \in IF src = "x" THEN {Pw} ELSE Passwords :
           \E tf \in IF src = "x" THEN {0} ELSE TmpFaults :
             PostImport(src, path, passwd, tf)
  \/ \E cmd \in SimpleLines : EncDecSimple(cmd)

NextMenu == NextMenuUpTo(MaxKeys)

\* enc/dec mode, the clipboard-decrypt command
NextClip ==
  \/ \E passwd \in Passwords, tf \in TmpFaults : EncDecClip(<<>>, passwd, tf)
  \/ EnvCopy

\* enc/dec mode, the file commands
NextFile ==
  \/ \E cmd \in EfileLines, tf \in TmpFaults : EncDecEfile(cmd, tf)
  \/ \E cmd \in DfileLines, tf \in TmpFaults : EncDecDfile(cmd, tf)
  \/ EnvPutFile

\* enc/dec mode, the message commands
NextMsg ==
  \/ \E cmd \in MoreLines, text \in MoreTexts, tf \in TmpFaults : EncDecMore(cmd, text, tf)
  \/ \E cmd \in PlainLines, tf \in TmpFaults : EncDecLine(cmd, tf)

\* enc/dec mode, the export of the own keys to files
NextKeys ==
  \E cmd \in ExportLines : EncDecExport(cmd)

Next == NextMenu \/ NextClip \/ NextFile \/ NextMsg \/ NextKeys

\* the whole program
Spec == Init /\ [][Next]_vars

\* sessions that use one group of enc/dec commands.  The clipboard and file
\* commands do not read what "openssl pkey -text" prints, so one working
\* openssl stands for both.
InitCurrent == Init /\ openssl # "v1"

SpecClip == InitCurrent /\ [][NextMenu \/ NextClip]_vars
SpecFile == InitCurrent /\ [][NextMenu \/ NextFile]_vars
SpecMsg == Init /\ [][NextMenu \/ NextMsg]_vars
\* a session that goes back to the main menu and generates its keys again
SpecKeys == Init /\ [][NextMenuUpTo(MaxRegen) \/ NextKeys]_vars

\* ------------------------------------------------- the functions, applied
\* The encryption functions applied to chosen buffers and each decryption
\* function applied to what came out, outside the menus, with a matching key
\* pair, a working openssl and no failing temporary file.
Buffers ==
  {<<>>, Text_hi, Rep(15, 0), Rep(16, 255), <<NL, SP, 195, 168, 13, NL>>, Rep(190, 97)}
FnPaths == {PathM, PathIn}

FnInit ==
  /\ menu = "fn"
  /\ my_priv = None /\ my_pub = None /\ their_pub = None
  /\ clipboard = <<>>
  /\ fs = <<>>
  /\ openssl \in {"v1", "v3"}
  /\ CLIP \in BOOLEAN
  /\ backend \in (IF CLIP THEN BOOLEAN ELSE {FALSE})
  /\ ngen = 0
  /\ drawn = 0
  /\ generator = NewGenerator("off", FALSE)
  /\ last = Simple("start", <<>>, "ok")

\* r is what a function applied outside the menus did
FnDone(op, in, text, r) ==
  /\ Effect(r)
  /\ last' = ObsT(op, in, text, r)
  /\ UNCHANGED <<menu, my_priv, my_pub, their_pub, host, ngen>>

\* r is what generate_rsa_keypair did
FnGenerated(bits, r) ==
  /\ Effect(r)
  /\ last' = Obs("fn-generate", <<bits>>, r)
  /\ my_priv' = r.val[1] /\ my_pub' = r.val[2] /\ their_pub' = r.val[2]
  /\ ngen' = ngen + 1

\* generate_rsa_keypair; the public key is used as the other side's key
FnGenerate(bits) ==
  /\ menu = "fn" /\ my_priv = None
  /\ FnGenerated(bits, generate_rsa_keypair(W(0), bits, ngen + 1))
  /\ UNCHANGED <<menu, host>>

\* efile_hybrid_encrypt on a file at path that holds m
FnEfile(path, m) ==
  /\ menu = "fn" /\ their_pub # None /\ path \notin DOMAIN fs
  /\ drawn + 2 <= MaxDraws
  /\ FnDone("fn-efile", path, m,
            efile_hybrid_encrypt([W(0) EXCEPT !.fs = [p \in DOMAIN fs \cup {path} |->
                                                        IF p = path THEN m ELSE fs[p]]],
                                 their_pub, path, Seed0))

\* dfile_hybrid_decrypt on the file that efile_hybrid_encrypt has just written
FnDfile ==
  /\ menu = "fn" /\ last.op = "fn-efile" /\ last.st = "ok"
  /\ FnDone("fn-dfile", last.in, last.text,
            dfile_hybrid_decrypt(W(0), my_priv, last.val, None))

\* rsa_encrypt_with_pubkey on a plaintext within the limit of the key
FnRsaEncrypt(m) ==
  /\ menu = "fn" /\ their_pub # None
  /\ Len(m) <= rsa_max_plain_bytes(ParsePub(their_pub).key.bits)
  /\ FnDone("fn-rsa-enc", <<>>, m, rsa_encrypt_with_pubkey(W(0), their_pub, m, Seed0))

\* the base64 text of the envelope just returned, its first line removed as
\* lines 510 and 513 or 528 do
FnPayload == Utf8Encode(PayloadOf(StrStrip(Utf8Decode(last.val).val)).val)

\* the envelope just returned, its first line removed, handed to
\* rsa_decrypt_with_privkey
FnRsaDecrypt ==
  /\ menu = "fn" /\ last.op = "fn-rsa-enc" /\ last.st = "ok"
  /\ FnDone("fn-rsa-dec", <<>>, last.text,
            rsa_decrypt_with_privkey(W(0), my_priv, FnPayload))

\* aes256_encrypt_bytes under the password p
FnAesEncrypt(p, m) ==
  /\ menu = "fn"
  /\ FnDone("fn-aes-enc", <<p>>, m, aes256_encrypt_bytes(W(0), p, m, Salt0))

\* the envelope just returned, its first line removed, handed to
\* aes256_decrypt_bytes under the password q
FnAesDecrypt(q) ==
  /\ menu = "fn" /\ last.op = "fn-aes-enc" /\ last.st = "ok"
  /\ FnDone("fn-aes-dec", <<last.in[1], q>>, last.text,
            aes256_decrypt_bytes(W(0), q, FnPayload))

FnNext ==
  \/ \E bits \in {2048, 4096, 8192} : FnGenerate(bits)
  \/ \E path \in FnPaths, m \in Buffers : DOMAIN fs = {} /\ FnEfile(path, m)
  \/ FnDfile
  \/ \E m \in Buffers : FnRsaEncrypt(m)
  \/ FnRsaDecrypt
  \/ \E p \in Passwords, m \in Buffers : FnAesEncrypt(p, m)
  \/ \E q \in Passwords : FnAesDecrypt(q)

SpecFn == FnInit /\ [][FnNext]_vars

\* efile_hybrid_encrypt applied to one file after another, under one key pair
FreshNext ==
  \/ \E bits \in {2048, 4096, 8192} : FnGenerate(bits)
  \/ \E path \in FnPaths, m \in Buffers : FnEfile(path, m)

SpecFresh == FnInit /\ [][FreshNext]_vars

\* ------------------------------------------------------------ quick_seed
\* quick_seed() of mouse_seed_generator_advanced.py, from the constructed
\* generator to the seed it returns.  The listener thread of pynput, or the
\* simulating thread where pynput is missing, runs beside the main thread.

\* where the mouse can be
Positions == {<<0, 0>>, <<3, 4>>, <<3, 0>>}
\* the time between two mouse events, in hundredths of a second
MoveGaps == {0, 1}
\* how many samples a run takes at most
MaxSamples == 3

\* what quick_seed leaves alone
session ==
  <<menu, my_priv, my_pub, their_pub, clipboard, fs, openssl, CLIP, backend, ngen, drawn, last>>

SeedInit ==
  /\ menu = "seed"
  /\ my_priv = None /\ my_pub = None /\ their_pub = None
  /\ clipboard = <<>>
  /\ fs = <<>>
  /\ openssl = "v3"
  /\ CLIP = FALSE
  /\ backend = FALSE
  /\ ngen = 0
  /\ drawn = 0
  /\ generator \in {NewGenerator("start", pynput) : pynput \in BOOLEAN}
  /\ last = Simple("start", <<>>, "ok")

\* start_collecting, lines 241-277: the display is disabled; the listener of
\* pynput or the simulating thread is started
StartCollecting ==
  /\ generator.pc = "start"
  /\ generator' = [generator EXCEPT !.pc = "loop", !.start_time = generator.now,
                                    !.loop_start = generator.now, !.is_listening = TRUE,
                                    !.mouse_listener = generator.pynput,
                                    !.sim_thread = ~generator.pynput]
  /\ UNCHANGED session

\* the listener thread of pynput calls on_move, lines 250-260 and 264-265
MouseMoves(pos, gap) ==
  /\ generator.mouse_listener
  /\ generator.total_samples < MaxSamples
  /\ generator' = on_move(generator, pos[1], pos[2], generator.now + gap)
  /\ UNCHANGED session

\* one round of simulate_mouse_movement, lines 270-274: on_move, then
\* time.sleep(sampling_rate)
SimulatedMove(pos) ==
  /\ generator.sim_thread
  /\ generator.is_listening /\ generator.now - generator.start_time < QuickDuration
  /\ generator.total_samples < MaxSamples
  /\ generator' = [on_move(generator, pos[1], pos[2], generator.now)
                     EXCEPT !.now = @ + sampling_rate]
  /\ UNCHANGED session

\* simulate_mouse_movement, line 271: the loop test fails and the thread ends
SimulatedStops ==
  /\ generator.sim_thread
  /\ ~(generator.is_listening /\ generator.now - generator.start_time < QuickDuration)
  /\ generator' = [generator EXCEPT !.sim_thread = FALSE]
  /\ UNCHANGED session

\* the body of the loop of lines 292-297 after its sleep, in generator g
AfterSleep(g) ==
  IF g.data_points = <<>> THEN g
  ELSE IF ~HasAttr(g, "last_display_time")
  THEN [stop_collecting(g) EXCEPT !.pc = "raised", !.error = "AttributeError"]
  ELSE IF g.now - g.last_display_time > DisplayEvery
  THEN [g EXCEPT !.displayed = @ + 1, !.last_display_time = g.now]
  ELSE g

\* start_collecting, lines 291-302: one test of the loop of the simple display
\* mode; an exception other than KeyboardInterrupt passes through the finally
CollectStep ==
  /\ generator.pc = "loop"
  /\ generator' =
       IF generator.now - generator.loop_start < QuickDuration /\ generator.is_listening
       THEN AfterSleep([generator EXCEPT !.now = @ + LoopSleep])
       ELSE [stop_collecting(generator) EXCEPT !.pc = "collected"]
  /\ UNCHANGED session

\* Ctrl+C during the loop, lines 299-302
KeyboardInterrupt ==
  /\ generator.pc = "loop"
  /\ generator' = [stop_collecting(generator) EXCEPT !.pc = "collected", !.interrupted = TRUE]
  /\ UNCHANGED session

\* quick_seed, lines 719-720: get_seed("movement") and return result.seed
ReturnSeed(pos) ==
  /\ generator.pc = "collected"
  /\ generator' = [generator EXCEPT !.pc = "returned",
                                    !.seed = get_seed(generator, pos[1], pos[2])]
  /\ UNCHANGED session

SeedNext ==
  \/ StartCollecting
  \/ \E pos \in Positions, gap \in MoveGaps : MouseMoves(pos, gap)
  \/ \E pos \in Positions : SimulatedMove(pos)
  \/ SimulatedStops
  \/ CollectStep
  \/ KeyboardInterrupt
  \/ \E pos \in Positions : ReturnSeed(pos)

SpecSeed == SeedInit /\ [][SeedNext]_vars

\* ------------------------------------------------------- add_data_point
\* MouseSeedGenerator.add_data_point called again and again on one generator,
\* as on_move does; last.calls keeps what every call was given and returned.

\* the min_distance and max_points a generator is constructed with
MinDistances == {1, 4}
MaxLens == {2, 1000}
\* how many calls a run makes at most
MaxCalls == 4

PointsInit ==
  /\ menu = "points"
  /\ my_priv = None /\ my_pub = None /\ their_pub = None
  /\ clipboard = <<>>
  /\ fs = <<>>
  /\ openssl = "v3"
  /\ CLIP = FALSE
  /\ backend = FALSE
  /\ ngen = 0
  /\ drawn = 0
  /\ generator \in {GeneratorWith("points", FALSE, md, mp) : md \in MinDistances, mp \in MaxLens}
  /\ last = Simple("start", <<>>, "ok")

\* r is what add_data_point(x, y) did at time t
PointAdded(x, y, t, r) ==
  /\ generator' = [r.self EXCEPT !.now = t]
  /\ last' = [last EXCEPT !.op = "add_data_point", !.in = <<x, y, t>>,
                          !.st = IF r.ret THEN "True" ELSE "False",
                          !.calls = Append(@, [fn |-> "add_data_point", in |-> <<x, y, t>>,
                                               out |-> [ok |-> r.ret, val |-> <<>>, diag |-> ""]])]
  /\ UNCHANGED <<menu, my_priv, my_pub, their_pub, clipboard, fs, openssl, CLIP, backend, ngen,
                 drawn>>

\* add_data_point(x, y), lines 192-239, gap hundredths of a second after the
\* call before it
AddDataPoint(pos, gap) ==
  /\ generator.pc = "points"
  /\ generator.total_samples < MaxCalls
  /\ PointAdded(pos[1], pos[2], generator.now + gap,
                add_data_point(generator, pos[1], pos[2], generator.now + gap))

PointsNext == \E pos \in Positions, gap \in MoveGaps : AddDataPoint(pos, gap)

SpecPoints == PointsInit /\ [][PointsNext]_vars

\* ----------------------------------------------------------- properties
\* the names of the calls a command has made
Attempted(calls) == {calls[i].fn : i \in 1..Len(calls)}
CallsOf(calls, fn) == {i \in 1..Len(calls) : calls[i].fn = fn}
DecryptCalls == {"dec-pass", "dec-raw", "pkeyutl-decrypt"}
\* the files, temporary ones apart, that a command has written
OutputsOf(writes) == {wr \in writes : ~IsTmpPath(wr.path)}
\* the newline-delimited sections of a text
Sections(text) == Len(Split(text, NL, 0 - 1))

\* C1: a text whose first line is not exactly one of the tags AES256-ENC,
\* RSA-ENC, HYBRID-RSA-AES, handed to clipboard-decrypt, to the key import or
\* to dfile, ends in an error or the not-recognised message, and no AES or
\* RSA decryption is attempted on it.  (A PEM public key, which the import
\* accepts as it is, is not counted as such a text.)
C1_UntaggedRejected ==
  (/\ last.op \in {"clip", "import", "dfile"}
   /\ last.text # <<>>
   /\ FirstLine(StrStrip(last.text)) \notin Tags
   /\ ~StartsWith(StrStrip(last.text), PemBeginPublic))
  => /\ last.st # "ok"
     /\ Attempted(last.calls) \cap DecryptCalls = {}

\* C2: dfile rejects a file that starts with the HYBRID-RSA-AES tag and has
\* two, or four or more, newline-delimited sections: it ends in an error, no
\* RSA or AES decryption has run and no output file is written.
C2_ThreeSections ==
  (/\ last.op = "dfile"
   /\ StartsWith(last.text, TagHybrid \o <<NL>>)
   /\ Sections(last.text) # 3)
  => /\ last.st = "err"
     /\ Attempted(last.calls) \cap DecryptCalls = {}
     /\ OutputsOf(last.writes) = {}

\* C3: in dfile, an RSA-unwrapped key blob that is not 48 bytes long ends the
\* command in an error with no AES decryption run and no output file written;
\* a 48-byte blob is used as key (bytes 0..31) and IV (bytes 32..47).
C3_KeyblobExact ==
  last.op = "dfile" =>
    \A i \in CallsOf(last.calls, "pkeyutl-decrypt") :
      last.calls[i].out.ok =>
        LET blob == last.calls[i].out.val
        IN IF Len(blob) # 48
           THEN /\ last.st = "err"
                /\ CallsOf(last.calls, "dec-raw") = {}
                /\ OutputsOf(last.writes) = {}
           ELSE \A j \in CallsOf(last.calls, "dec-raw") :
                  /\ last.calls[j].in[1] = Hex(SubSeq(blob, 1, 32))
                  /\ last.calls[j].in[2] = Hex(SubSeq(blob, 33, 48))

\* C3 happens: a dfile has just refused a blob of another length, after an
\* earlier dfile has decrypted a file with a 48-byte blob
C3_Witness ==
  /\ last.op = "dfile" /\ last.st = "err"
  /\ \E i \in CallsOf(last.calls, "pkeyutl-decrypt") :
       last.calls[i].out.ok /\ Len(last.calls[i].out.val) = 49
  /\ \E p \in DOMAIN fs : EndsWith(p, SufDec) /\ fs[p] = Text_hi

\* C4 as stated: in the single-line and the 'more' path, rsa_encrypt_with_pubkey
\* is never called on a plaintext longer than max_plain_bytes(bits), bits being
\* the real size of the imported public key.
C4_RealSizeLimit ==
  last.op \in {"line", "more"} =>
    \A i \in CallsOf(last.calls, "rsa_encrypt_with_pubkey") :
      ParsePub(last.calls[i].in[1]).ok =>
        Len(last.calls[i].in[2]) <= OaepLimit(ParsePub(last.calls[i].in[1]).key.bits)

\* C4 amended: the limit is that of the size the program detects, which is
\* the real size where "openssl pkey -text" prints it as "RSA Public-Key: (N
\* bit)" and 2048 otherwise; a longer plaintext is refused and
\* rsa_encrypt_with_pubkey is not called, a plaintext that is passed on is
\* passed on whole.
C4_DetectedSizeLimit ==
  last.op \in {"line", "more"} =>
    \A i \in CallsOf(last.calls, "size-check") :
      LET len == last.calls[i].in[1]
          detected == last.calls[i].in[2]
          pub == their_pub
      IN /\ detected = IF /\ "pkey-text" \in Attempted(last.calls)
                          /\ openssl = "v1" /\ ParsePub(pub).ok
                       THEN ParsePub(pub).key.bits ELSE 2048
         /\ len > OaepLimit(detected)
              => last.st = "toolong" /\ CallsOf(last.calls, "rsa_encrypt_with_pubkey") = {}
         /\ \A j \in CallsOf(last.calls, "rsa_encrypt_with_pubkey") :
              /\ len <= OaepLimit(detected)
              /\ last.calls[j].in[2] = Utf8Encode(last.in)

\* C4 happens: with the size of a 1024-bit key detected, a line of 63 bytes,
\* one more than its limit, has just been refused
C4_Witness ==
  /\ last.op = "line" /\ last.st = "toolong" /\ Len(last.in) = 63
  /\ \E i \in CallsOf(last.calls, "size-check") : last.calls[i].in[2] = 1024

\* C5: in a session without the esecret command, the private key is never
\* written to a file, temporary files included.
C5_PrivateKeyNotOnDisk ==
  (my_priv # None /\ last.op # "esecret") =>
    \A wr \in last.writes : BytesRstrip(wr.data) # my_priv

\* C6: when a command has returned or raised, no temporary file that it made
\* is left.
C6_NoTempFileLeft == TmpFiles = {}

\* C7: efile_hybrid_encrypt on a file holding m, then dfile_hybrid_decrypt on
\* the .enc file it wrote, with the matching private key, writes an output
\* file whose content is m.
C7_HybridRoundTrip ==
  last.op = "fn-dfile" =>
    /\ last.st = "ok"
    /\ last.val \in DOMAIN fs
    /\ fs[last.val] = last.text

\* C7 happens: the round trip of an empty file has just ended
C7_Witness ==
  /\ last.op = "fn-dfile" /\ last.text = <<>>
  /\ last.val \in DOMAIN fs /\ last.val # last.in

\* C8: the envelope of rsa_encrypt_with_pubkey(pub, m), for m within the
\* limit of the key, its first line removed, handed to
\* rsa_decrypt_with_privkey with the matching private key, gives m.
C8_RsaRoundTrip ==
  last.op = "fn-rsa-dec" => last.st = "ok" /\ last.val = last.text

\* C8 happens: the round trip of a plaintext of 190 bytes, the limit of a
\* 2048-bit key, has just ended
C8_Witness ==
  /\ last.op = "fn-rsa-dec" /\ Len(last.text) = 190
  /\ ParsePriv(my_priv).key.bits = 2048

\* C9: the envelope of aes256_encrypt_bytes(p, m), its first line removed,
\* handed to aes256_decrypt_bytes under the same password p, gives m.
C9_AesRoundTrip ==
  (last.op = "fn-aes-dec" /\ last.in[1] = last.in[2])
  => last.st = "ok" /\ last.val = last.text

\* C9 happens: the round trip of a buffer of a whole block has just ended,
\* and so has one of a buffer that begins and ends in white space
C9_Witness ==
  /\ last.op = "fn-aes-dec" /\ last.in[1] = last.in[2]
  /\ last.text = <<NL, SP, 195, 168, 13, NL>>

\* C10: efile on the path P writes the envelope to P + ".enc"; dfile on a
\* path Q that ends in ".enc" writes the plaintext to Q with only that
\* trailing ".enc" replaced by ".dec".
C10_OutputPaths ==
  /\ (last.op = "efile" /\ last.st = "ok")
       => /\ last.val = last.in \o SufEnc
          /\ {wr.path : wr \in OutputsOf(last.writes)} = {last.in \o SufEnc}
  /\ (last.op = "dfile" /\ last.st = "ok" /\ EndsWith(last.in, SufEnc))
       => /\ last.val = SubSeq(last.in, 1, Len(last.in) - Len(SufEnc)) \o SufDec
          /\ {wr.path : wr \in OutputsOf(last.writes)} = {last.val}

\* C11: when the openssl executable is missing, a key generation that needed
\* it ends in an error reported to the session, the program goes on at the
\* main menu with its keys as they were, and the process is not terminated.
C11_MissingOpensslContinues ==
  (openssl = "absent" /\ last.op = "generate" /\ last.in # <<>>)
  => /\ last.st = "err"
     /\ menu = "main"
     /\ my_priv = None /\ my_pub = None

\* the files that efile_hybrid_encrypt has sealed and whose envelope is there
SealedFiles == {p \in DOMAIN fs : p \o SufEnc \in DOMAIN fs}
SectionOf(text, k) == Split(text, NL, 0 - 1)[k]

\* C12: every call of efile_hybrid_encrypt draws its key and its IV inside the
\* call and none is reused by a later call: the envelopes of two calls with
\* the same public key on files of identical content differ, in the wrapped
\* key and in the ciphertext.
C12_FreshKeyAndIv ==
  \A p, q \in SealedFiles :
    (p # q /\ fs[p] = fs[q])
    => /\ fs[p \o SufEnc] # fs[q \o SufEnc]
       /\ SectionOf(fs[p \o SufEnc], 2) # SectionOf(fs[q \o SufEnc], 2)
       /\ SectionOf(fs[p \o SufEnc], 3) # SectionOf(fs[q \o SufEnc], 3)

\* C12 happens: two files that hold the same text have both been sealed
C12_Witness ==
  /\ last.op = "fn-efile" /\ last.st = "ok" /\ drawn = 4
  /\ \E p, q \in SealedFiles : p # q /\ fs[p] = Text_hi /\ fs[q] = Text_hi

\* C13: when an RSA or AES decryption process has failed, the failure reported
\* to the user is the same whatever the cause: the command ends in an error
\* whose message carries nothing of what the process printed.
C13_GenericFailure ==
  (/\ last.op \in {"clip", "import", "dfile"}
   /\ \E i \in 1..Len(last.calls) :
        last.calls[i].fn \in DecryptCalls /\ ~last.calls[i].out.ok)
  => /\ last.st = "err"
     /\ last.diag = ""

\* the decoders that a command has entered
Decoders == {"aes256_decrypt_bytes", "rsa_decrypt_with_privkey", "dfile_hybrid_decrypt"}
Entered(calls) == Attempted(calls) \cap Decoders

\* the decoder that the first line of a text stands for
DecoderOfLine(line) ==
  IF StartsWith(line, TagAes) THEN {"aes256_decrypt_bytes"}
  ELSE IF StartsWith(line, TagRsa) THEN {"rsa_decrypt_with_privkey"}
  ELSE IF StartsWith(line, TagHybrid) THEN {"dfile_hybrid_decrypt"}
  ELSE {}

\* C14: in the clipboard-decrypt command the decoder is a function of the
\* first line only and at most one decoder runs, once: a text whose first line
\* is HYBRID-RSA-AES never enters aes256_decrypt_bytes or
\* rsa_decrypt_with_privkey, and a text whose first line is AES256-ENC or
\* RSA-ENC never enters dfile_hybrid_decrypt.
C14_DispatchByFirstLine ==
  last.op = "clip" =>
    /\ Entered(last.calls) \subseteq DecoderOfLine(FirstLine(StrStrip(last.text)))
    /\ \A d \in Decoders : Cardinality(CallsOf(last.calls, d)) <= 1
    /\ FirstLine(StrStrip(last.text)) = TagHybrid
         => Entered(last.calls) \subseteq {"dfile_hybrid_decrypt"}
    /\ FirstLine(StrStrip(last.text)) \in {TagAes, TagRsa}
         => "dfile_hybrid_decrypt" \notin Entered(last.calls)

\* C14 happens: a hybrid envelope on the clipboard has been decrypted by
\* dfile_hybrid_decrypt, the process of the file cipher having run
C14_Witness ==
  /\ last.op = "clip" /\ last.st = "ok"
  /\ FirstLine(StrStrip(last.text)) = TagHybrid
  /\ Entered(last.calls) = {"dfile_hybrid_decrypt"}
  /\ "dec-raw" \in Attempted(last.calls)

C16_OaepLimit ==
  /\ rsa_max_plain_bytes(2048) = 190
  /\ rsa_max_plain_bytes(4096) = 446
  /\ rsa_max_plain_bytes(8192) = 958
  /\ \A bits \in {2048, 4096, 8192} : rsa_max_plain_bytes(bits) = bits \div 8 - 2 * 32 - 2
  /\ (/\ last.op \in {"line", "more"}
      /\ ParsePub(their_pub).ok
      /\ ParsePub(their_pub).key.bits = 2048)
     => /\ Len(Utf8Encode(last.in)) = 190
             => /\ last.st # "toolong"
                /\ CallsOf(last.calls, "rsa_encrypt_with_pubkey") # {}
        /\ Len(Utf8Encode(last.in)) = 191
             => /\ last.st = "toolong"
                /\ CallsOf(last.calls, "rsa_encrypt_with_pubkey") = {}

\* C16 happens: under a 2048-bit key a line of 190 bytes has been encrypted
C16_Witness ==
  /\ last.op = "line" /\ last.st = "ok" /\ Len(Utf8Encode(last.in)) = 190
  /\ ParsePub(their_pub).ok /\ ParsePub(their_pub).key.bits = 2048

\* whether "openssl pkey -text" on the key pub prints the line that the
\* program looks for
SizeLinePrinted(pub) == OsslPkeyText(pub).label = "RSA Public-Key"

B64Text(s) == \A k \in 1..Len(s) : IsB64(s[k]) \/ s[k] = EQ

\* the data written to the temporary file of that name
WrittenTo(writes, path) == {wr.data : wr \in {x \in writes : x.path = path}}

\* C18: the envelope that efile_hybrid_encrypt writes has exactly three
\* newline-delimited sections: the line HYBRID-RSA-AES, the base64 text of
\* what RSA-OAEP made of the 48-byte blob key (32 bytes) then IV (16 bytes),
\* and the base64 text of the AES-256-CBC ciphertext under that key and IV;
\* no base64 section holds a newline.
C18_EnvelopeLayout ==
  (last.op \in {"efile", "fn-efile"} /\ last.st = "ok") =>
    /\ last.val \in DOMAIN fs
    /\ Sections(fs[last.val]) = 3
    /\ SectionOf(fs[last.val], 1) = TagHybrid
    /\ B64Text(SectionOf(fs[last.val], 2)) /\ B64Text(SectionOf(fs[last.val], 3))
    /\ \E a \in CallsOf(last.calls, "enc-raw"), r \in CallsOf(last.calls, "pkeyutl-encrypt") :
         /\ SectionOf(fs[last.val], 2) = B64Encode(last.calls[r].out.val)
         /\ SectionOf(fs[last.val], 3) = B64Encode(last.calls[a].out.val)
         /\ last.calls[a].in[3] = last.text
         /\ \E blob \in WrittenTo(last.writes, last.calls[r].in[2]) :
              /\ Len(blob) = 48
              /\ Hex(SubSeq(blob, 1, 32)) = last.calls[a].in[1]
              /\ Hex(SubSeq(blob, 33, 48)) = last.calls[a].in[2]
              /\ last.calls[r].out = OsslRsaEncrypt(their_pub, blob, Seed0)
              /\ last.calls[a].out = OsslAesCbcEncrypt(SubSeq(blob, 1, 32), SubSeq(blob, 33, 48),
                                                       last.text)

\* C18 happens: efile has written the envelope of a file that holds "hi",
\* under the key of the other side
C18_Witness ==
  /\ last.op = "efile" /\ last.st = "ok" /\ last.text = Text_hi
  /\ their_pub = BytesRstrip(PubPem(Peer1024))
  /\ Sections(fs[last.val]) = 3

\* the commands of the session that encrypt, decrypt, import or export
Commands == {"export", "import", "efile", "dfile", "clip", "line", "more"}

\* the steps of the last command that failed
FailedSteps == {i \in DOMAIN last.calls : ~last.calls[i].out.ok}

\* C19: every error inside an encrypt, decrypt, import or export command is
\* reported: a command of which a step failed does not end with its success
\* message (a temporary file that could not be deleted is no logged step).
C19_ErrorsReported ==
  (last.op \in Commands /\ FailedSteps # {}) => last.st # "ok"

\* C20: quick_seed() ends by returning an integer seed: start_collecting in
\* the simple display mode leaves its loop without an exception, also when
\* data points have been collected, and the seed is an integer of 31 bits.
C20_QuickSeedReturns ==
  /\ generator.pc # "raised"
  /\ generator.pc = "returned" => generator.seed \in Nat

\* q is what is left of the deque p after it dropped points at its front
IsSuffix(q, p) == Len(q) <= Len(p) /\ q = SubSeq(p, Len(p) - Len(q) + 1, Len(p))

\* a call with point c = <<x, y, t>> has appended it to the data points dp,
\* which gives dp2
AppendedTo(dp, c, dp2) ==
  /\ dp2 # <<>>
  /\ SubSeq(dp2[Len(dp2)], 1, 3) = c
  /\ IsSuffix(AllButLast(dp2), dp)

\* every data point after the first lies at least min_distance away from the
\* one appended before it
SpacedApart ==
  \A i \in 2..Len(generator.data_points) :
    DistSq(generator.data_points[i - 1][1], generator.data_points[i - 1][2],
           generator.data_points[i][1], generator.data_points[i][2])
      >= generator.min_distance * generator.min_distance

\* what one call of add_data_point does, from the generator before it to the
\* generator after it
CallRule ==
  last'.op = "add_data_point" /\ Len(last'.calls) = Len(last.calls) + 1 =>
    /\ (last'.st = "True") =
         ~(/\ generator.last_point # <<>>
           /\ \/ DistSq(generator.last_point[1], generator.last_point[2],
                        last'.in[1], last'.in[2])
                   < generator.min_distance * generator.min_distance
              \/ last'.in[3] - generator.last_point[3] < 1)
    /\ last'.st = "True" =>
         /\ AppendedTo(generator.data_points, last'.in, generator'.data_points)
         /\ generator'.last_point = last'.in
    /\ last'.st = "False" =>
         /\ generator'.data_points = generator.data_points
         /\ generator'.last_point = generator.last_point

\* C21: add_data_point returns True exactly when it appends the point; the
\* first point is always appended, a later one is left out exactly when it is
\* nearer than min_distance to the last appended point or less than 0.001 s
\* after it; data points that follow each other lie min_distance apart, and
\* last_point changes only with an append.
C21_AppendsUnlessStagnant == []SpacedApart /\ [][CallRule]_vars

\* C21 happens: a generator with min_distance 4 has appended two points and
\* left out one
C21_Witness ==
  /\ last.op = "add_data_point"
  /\ generator.min_distance = 4
  /\ Len(generator.data_points) >= 2
  /\ generator.stagnant_points >= 1

\* the calls of add_data_point, of those in log, that returned True
TrueCalls(log) == {i \in DOMAIN log : log[i].fn = "add_data_point" /\ log[i].out.ok}

\* the length of the path through the points of the calls that returned
\* True: from prev, the point of the last such call (<<>> before the first)
RECURSIVE PathLength(_, _)
PathLength(log, prev) ==
  IF log = <<>> THEN 0
  ELSE IF ~Head(log).out.ok THEN PathLength(Tail(log), prev)
  ELSE (IF prev = <<>> THEN 0
        ELSE Isqrt(DistSq(prev[1], prev[2], Head(log).in[1], Head(log).in[2])))
       + PathLength(Tail(log), Head(log).in)

\* C27: after any sequence of add_data_point calls on one generator,
\* total_samples is stagnant_points plus the number of calls that returned
\* True, data_points and raw_points hold at most max_points entries, and
\* total_distance is the sum of the distances of all points ever appended,
\* those evicted from data_points included.
C27_Counters ==
  generator.pc = "points" =>
    /\ generator.total_samples = Len(last.calls)
    /\ generator.total_samples = generator.stagnant_points + Cardinality(TrueCalls(last.calls))
    /\ Len(generator.data_points) <= generator.max_points
    /\ Len(generator.raw_points) <= generator.max_points
    /\ generator.total_distance = PathLength(last.calls, <<>>)

\* C27 happens: four calls on a generator with max_points 2 have all
\* appended, and total_distance counts a point that data_points has dropped
C27_Witness ==
  /\ generator.pc = "points" /\ generator.max_points = 2
  /\ Cardinality(TrueCalls(last.calls)) = 4
  /\ Len(generator.data_points) = 2
  /\ generator.total_distance > generator.data_points[1][4] + generator.data_points[2][4]

\* the files that are no temporary files, before and after a step, are the same
SameFiles ==
  \A p \in (DOMAIN fs \cup DOMAIN fs') :
    ~IsTmpPath(p) => p \in DOMAIN fs /\ p \in DOMAIN fs' /\ fs'[p] = fs[p]

\* a step that is an efile or dfile command which failed
FileCommandFailed == last'.op \in {"efile", "dfile"} /\ last'.st # "ok"

DfileInputs ==
  {last.calls[i].in[1] : i \in CallsOf(last.calls, "dfile_hybrid_decrypt")}

\* C23: dfile_hybrid_decrypt called without an output path writes the
\* plaintext to a path other than its input path, also for an input path
\* that holds no ".enc": the encrypted file is not overwritten by its own
\* decryption.
C23_OutputApartFromInput ==
  (last.op \in {"dfile", "clip"} /\ last.st = "ok") => last.val \notin DfileInputs

\* C24: after a clipboard-decrypt of a HYBRID-RSA-AES envelope has succeeded,
\* the output file whose path it has reported exists and holds the
\* decrypted content.
C24_ReportedOutputExists ==
  (last.op = "clip" /\ last.st = "ok" /\ DfileInputs # {}) =>
    /\ last.val \in DOMAIN fs
    /\ \E i \in CallsOf(last.calls, "dec-raw") : fs[last.val] = last.calls[i].out.val

\* the commands that the last line typed has handed to the shell
ShellCommands ==
  {last.calls[i].in[1] : i \in CallsOf(last.calls, "execute_command")}

\* C25: in enc/dec mode the shell is handed a command only for a line that is
\* "exec", a space and a command that is not empty; no other line, a message
\* that begins with the letters "exec" among them, reaches the shell.
C25_ExecNeedsSpace ==
  ShellCommands # {} =>
    /\ StartsWith(last.in, CmdExec \o <<SP>>)
    /\ StrStrip(SubSeq(last.in, 6, Len(last.in))) # <<>>

\* my_priv and my_pub are set, and are the private and the public half of
\* the key pair that openssl generated last for this session
PairOfLastGeneration ==
  /\ ParsePriv(my_priv).ok /\ ParsePub(my_pub).ok
  /\ ParsePriv(my_priv).key = ParsePub(my_pub).key
  /\ ParsePub(my_pub).key.id = ngen

\* in the menus that follow a key generation the pair is complete, and
\* nowhere is one half set without the other
KeysPaired ==
  /\ (my_priv = None) = (my_pub = None)
  /\ menu \in {"postgen", "encdec"} => PairOfLastGeneration

\* a step sets my_priv and my_pub to what a successful generate_rsa_keypair
\* got from openssl, and no other step changes either
KeysFrame ==
  IF last'.op = "generate" /\ last'.st = "ok"
  THEN \E g \in CallsOf(last'.calls, "genpkey"), p \in CallsOf(last'.calls, "pkey-pubout") :
         /\ my_priv' = BytesRstrip(last'.calls[g].out.val)
         /\ my_pub' = BytesRstrip(last'.calls[p].out.val)
  ELSE my_priv' = my_priv /\ my_pub' = my_pub

\* C26: in the post-generation menu and in enc/dec mode my_priv and my_pub
\* are both set and are the halves of the most recent successful
\* generate_rsa_keypair; a failed or cancelled generation leaves both as
\* they were; one is never set without the other.
C26_KeyPairKept == []KeysPaired /\ [][KeysFrame]_vars

\* C26 happens: with a key pair in memory, a further generation has failed
C26_Witness ==
  /\ last.op = "generate" /\ last.in # <<>> /\ last.st = "err"
  /\ my_priv # None /\ my_pub # None /\ ngen = 1

====
